---- MODULE Spec2Model ----
(***************************************************************************)
(* AT24C256 EEPROM driver (src/src/at24c256.c) over a page-wrapping        *)
(* serial EEPROM reached through a byte-oriented channel.                  *)
(*                                                                         *)
(* The driver's API calls are actions; at24c256_write is split at its loop *)
(* into the transmission of one chunk and the settle delay that follows.   *)
(* Every API call ends in pc = "done" with its result in ret/out/log, and  *)
(* Return hands control back to the caller.                                *)
(***************************************************************************)
EXTENDS Integers, Sequences, FiniteSets, TLC

\* ------------------------------------------------------------------ bounds
\* page size of the modelled device (AT24C256: 64)
PageSize == 2
\* capacity of the modelled device (AT24C256: 32768)
TotalSize == 5
\* API calls the caller makes besides at24c256_init
MaxCalls == 2
\* largest timeout_ms handed to wait_ready
MaxTimeout == 2

\* ------------------------------------------------------- program constants
UINT16 == 65536
BYTE == 256
UINT16_MAX == 65535
ERASE_BYTE == 255
MSEC_PER_SEC == 1000
NSEC_PER_MSEC == 1000000
NSEC_PER_USEC == 1000
NSEC_PER_SEC == 1000000000
POLL_USEC == 1000
WRITE_DELAY_MS == 5
DEVICE_ADDR == 80

AT24C256_OK == 0
AT24C256_ERROR_INIT == -1
AT24C256_ERROR_WRITE == -2
AT24C256_ERROR_READ == -3
AT24C256_ERROR_PARAM == -4
AT24C256_ERROR_MEMORY == -5
AT24C256_ERROR_BUSY == -6
AT24C256_ERROR_TIMEOUT == -7

Min(a, b) == IF a < b THEN a ELSE b

\* at24c256_config_t
at24c256_config_t(p, t) ==
    [i2c_bus |-> "/dev/i2c-5", device_addr |-> DEVICE_ADDR,
     page_size |-> p, total_size |-> t, write_delay_ms |-> WRITE_DELAY_MS]

\* configurations handed to init: Device Configurations (page_size > 0,
\* total_size > 0, page_size <= total_size) describing the attached device
Configs == { at24c256_config_t(PageSize, TotalSize) }

NoConfig == at24c256_config_t(0, 0)

\* ------------------------------------------------------------------ inputs
\* (address, length) arguments: every range inside the device, every range
\* ending one byte past it, every empty range, and the uint16_t extremes
Ranges ==
    { rg \in (0 .. TotalSize) \X (0 .. TotalSize + 1) :
        rg[1] + rg[2] <= TotalSize + 1 }
    \cup { <<UINT16_MAX, 1>>, <<1, UINT16_MAX>>, <<UINT16_MAX, UINT16_MAX>> }

\* first byte of the caller's data; the bytes that follow count up from it,
\* through 0xFF and round to 0x00
DataSeeds == {251}

\* caller buffer of `length` bytes; only the bytes a driver call can reach
\* on this device are materialised
Buffer(seed, length) ==
    [i \in 1 .. Min(length, TotalSize + 1) |-> ((seed + i) - 1) % BYTE]

\* device image before the first call: a used device, no byte erased and
\* no two bytes alike
InitImages ==
    { [a \in 0 .. TotalSize - 1 |-> (16 * a + 3) % BYTE] }

NoCall == [op |-> "none", address |-> 0, length |-> 0,
           data_null |-> TRUE, data |-> <<>>]
NoPrev == [op |-> "none", address |-> 0, length |-> 0, data |-> <<>>,
           ret |-> 0, cycle_left |-> 0]
NoWrite == [remaining |-> 0, current_addr |-> 0, current_data |-> 0]
NoWait == [timeout_ms |-> 0,
           start |-> [tv_sec |-> 0, tv_nsec |-> 0],
           now |-> [tv_sec |-> 0, tv_nsec |-> 0]]

VARIABLES
    handle,       \* the caller's at24c256_handle_t: "NULL", "live", "dangling"
    initialized,  \* handle->initialized
    config,       \* handle->config
    nopen,        \* channels (file descriptors) currently open
    mem,          \* device: array contents
    mem0,         \* device: array contents when the current call began
    ptr,          \* device: internal address pointer
    pc,           \* position of the single caller thread
    call,         \* the API call in progress or just finished
    w,            \* at24c256_write locals: remaining, current_addr, current_data
    wr,           \* internal_wait_ready: timeout_ms, start, and the
                  \* CLOCK_MONOTONIC time now
    ret,          \* return value of the finished call
    out,          \* bytes the finished call stored into the caller's buffer
    log,          \* transport operations and sleeps of the call, in order
    prev,         \* the previous call, when it was a write or erase whose
                  \* channel transfers all completed in full: arguments, result
                  \* (else NoPrev), and what was left of the device's write
                  \* cycle when the call returned
    ncalls,       \* calls made so far, at24c256_init apart
    blobs,        \* camera_parameters: the .dat files, in readdir order
    ipc,          \* position of the write program and the recovery program
    erase_flag,   \* the write program was started with --erase
    files,        \* main's file_index_t files[MAX_FILES], as raw bytes
    file_count,   \* main's file_count
    next_file,    \* index of the next directory entry or array element
    current_address,  \* process_camera_parameters' current_address
    calls,        \* driver calls of the two programs, in order
    outdir,       \* files the recovery program has saved, in order
    success_count,    \* the recovery program's success_count
    results,      \* outcome of each file the recovery program handled
    exit_status,  \* exit status of the write and of the recovery program
    tamper        \* the device byte changed between the two programs

\* the driver and the device
drvvars == <<handle, initialized, config, nopen, mem, mem0, ptr, pc, call, w,
             wr, ret, out, log, prev, ncalls>>

\* the programs of the file index layer
ixvars == <<blobs, ipc, erase_flag, files, file_count, next_file,
            current_address, calls, outdir, success_count, results,
            exit_status, tamper>>

vars == <<handle, initialized, config, nopen, mem, mem0, ptr, pc, call, w, wr,
          ret, out, log, prev, ncalls, blobs, ipc, erase_flag, files,
          file_count, next_file, current_address, calls, outdir,
          success_count, results, exit_status, tamper>>

\* no program of the file index layer is running
NoPrograms ==
    /\ blobs = <<>>
    /\ ipc = "off"
    /\ erase_flag = FALSE
    /\ files = <<>>
    /\ file_count = 0
    /\ next_file = 0
    /\ current_address = 0
    /\ calls = <<>>
    /\ outdir = <<>>
    /\ success_count = 0
    /\ results = <<>>
    /\ exit_status = [write |-> "none", read |-> "none"]
    /\ tamper = <<>>

\* the state: the driver's handle (struct at24c256_dev_s behind the caller's
\* pointer), the device, and the caller's position in the API call it makes
TypeOK ==
    /\ handle \in {"NULL", "live", "dangling"}
    /\ initialized \in BOOLEAN
    /\ config \in Configs \cup {NoConfig}
    /\ nopen \in 0 .. 1
    /\ mem \in [0 .. TotalSize - 1 -> 0 .. BYTE - 1]
    /\ mem0 \in [0 .. TotalSize - 1 -> 0 .. BYTE - 1]
    /\ ptr \in 0 .. TotalSize - 1
    /\ pc \in {"idle", "write_loop", "write_settle", "wait_loop", "done",
               "crashed"}
    /\ call.op \in {"none", "init", "deinit", "read", "write", "erase",
                    "get_info", "wait_ready"}
    /\ w.remaining \in 0 .. UINT16_MAX
    /\ w.current_addr \in 0 .. UINT16_MAX
    /\ wr.timeout_ms \in 0 .. MaxTimeout
    /\ wr.start.tv_nsec \in 0 .. NSEC_PER_SEC - 1
    /\ wr.now.tv_nsec \in 0 .. NSEC_PER_SEC - 1
    /\ wr.now.tv_sec \in 0 .. 1
    /\ ret \in AT24C256_ERROR_TIMEOUT .. AT24C256_OK
    /\ ncalls \in 0 .. MaxCalls
    /\ (handle = "live") = (nopen = 1)

\* ------------------------------------------------------------------ device
\* page-write: the low bits of the address counter roll over inside the page
DevPageWrite(m, c, payload, p, t) ==
    LET base == (c % t) - ((c % t) % p)
        cell(i) == (base + ((((c % t) % p) + i - 1) % p)) % t
        RECURSIVE put(_, _)
        put(mm, i) == IF i > Len(payload) THEN mm
                      ELSE put([mm EXCEPT ![cell(i)] = payload[i]], i + 1)
    IN put(m, 1)

\* address pointer carried by the first two bytes of a transaction
DevPointer(buffer, t) == (buffer[1] * BYTE + buffer[2]) % t

\* sequential read: n bytes from the address pointer, rolling over at the end
DevRead(m, p, n, t) == [i \in 1 .. n |-> m[((p + i) - 1) % t]]

\* payload bytes the device has taken from a transaction of which the
\* channel reports r bytes transferred (two of them the address pointer)
DevAccepted(r) == IF r > 2 THEN r - 2 ELSE 0

\* write(fd, buffer, n): full count, one byte short, or error
WriteResults(n) == {n, n - 1, -1}
\* read(fd, buffer, n)
ReadResults(n) == {n, n - 1, -1}

\* ------------------------------------------------------------------ driver
\* !handle || !handle->initialized, as the code can observe it: a dangling
\* handle points to freed storage whose contents are indeterminate
NotReadyViews ==
    CASE handle = "NULL" -> {TRUE}
      [] handle = "live" -> {~initialized}
      [] OTHER -> BOOLEAN

\* the channel behind handle->fd is open
FdOpen == handle = "live"

\* mutant: a handle that is not ready is reported as a parameter error
check_address_length_param(notready, address, length) ==
    IF notready THEN AT24C256_ERROR_PARAM
    ELSE IF address + length > config.total_size THEN AT24C256_ERROR_PARAM
    ELSE IF length = 0 THEN AT24C256_ERROR_PARAM
    ELSE AT24C256_OK

\* mutant: the empty range is not refused
check_address_length_nozero(notready, address, length) ==
    IF notready THEN AT24C256_ERROR_INIT
    ELSE IF address + length > config.total_size THEN AT24C256_ERROR_PARAM
    ELSE AT24C256_OK

\* mutant: only the start of the range is compared with total_size
check_address_length_start(notready, address, length) ==
    IF notready THEN AT24C256_ERROR_INIT
    ELSE IF address > config.total_size THEN AT24C256_ERROR_PARAM
    ELSE IF length = 0 THEN AT24C256_ERROR_PARAM
    ELSE AT24C256_OK

\* mutant: the sum is kept in the 16 bits of its operands
range_end_uint16(address, length) == (address + length) % UINT16

\* address + length (line 50): both uint16_t operands are promoted to int,
\* in which the sum of two values up to 65535 is exact; it is then compared
\* with the uint32_t total_size
range_end(address, length) == address + length

check_address_length(notready, address, length) ==
    IF notready THEN AT24C256_ERROR_INIT
    ELSE IF range_end(address, length) > config.total_size
    THEN AT24C256_ERROR_PARAM
    ELSE IF length = 0 THEN AT24C256_ERROR_PARAM
    ELSE AT24C256_OK

\* one entry of the call's trace: a channel operation or a sleep
Event(kind, buffer, n, result) ==
    [kind |-> kind, buffer |-> buffer, n |-> n, result |-> result,
     open |-> FdOpen]

\* device: microseconds its internal write cycle lasts, no longer than the
\* configured settle delay
WriteCycleUsec == WRITE_DELAY_MS * 1000

\* device: microseconds of internal write cycle still to run after the trace
\* l, when carry microseconds were left before it. A chunk transferred in full
\* (address pointer and payload) starts a cycle when the transaction ends; the
\* two-byte pointer write of a read starts none; only sleeping is counted as
\* time passing
RECURSIVE CycleLeft(_, _)
CycleLeft(l, carry) ==
    IF l = <<>> THEN carry
    ELSE LET e == l[Len(l)]
             before == CycleLeft(SubSeq(l, 1, Len(l) - 1), carry)
         IN IF e.kind = "write" /\ e.n > 2 /\ e.result = e.n
            THEN WriteCycleUsec
            ELSE IF e.kind = "usleep"
            THEN (IF before > e.n THEN before - e.n ELSE 0)
            ELSE before

\* every channel transfer of a trace moved the full byte count asked for
AllFull(l) ==
    \A i \in 1 .. Len(l) :
        l[i].kind \in {"write", "read"} => l[i].result = l[i].n

Finish(r) ==
    /\ pc' = "done"
    /\ ret' = r

\* the caller may make another call
CanCall == pc = "idle" /\ ncalls < MaxCalls

Begin(c) ==
    /\ ncalls' = ncalls + 1
    /\ call' = c
    /\ prev' = prev

\* mutant: the channel is left open when the device cannot be addressed
init_channels_no_close(outcome) ==
    IF outcome \in {"ok", "nobind"} THEN 1 ELSE 0

\* channels at24c256_init has opened and not closed again when it returns:
\* none before open() (lines 90-98) or when open() fails (lines 106-110),
\* none after close() when ioctl fails (lines 113-117), one on success
init_channels(outcome) ==
    CASE outcome \in {"nullarg", "nomem", "noopen"} -> 0
      [] outcome = "nobind" -> 1 - 1
      [] outcome = "ok" -> 1

\* at24c256_init called with a configuration of cfgs: a null argument, or
\* malloc, open or ioctl(I2C_SLAVE) failing, or success (lines 89-123)
init_with(cfgs) ==
    /\ pc = "idle"
    /\ UNCHANGED ixvars
    /\ handle # "live"
    /\ \E cfg \in cfgs,
          outcome \in {"nullarg", "nomem", "noopen", "nobind", "ok"} :
         /\ call' = [NoCall EXCEPT !.op = "init"]
         /\ nopen' = nopen + init_channels(outcome)
         /\ IF outcome = "ok"
            THEN /\ handle' = "live"
                 /\ initialized' = TRUE
                 /\ config' = cfg
                 /\ Finish(AT24C256_OK)
            ELSE /\ UNCHANGED <<handle, initialized, config>>
                 /\ Finish(CASE outcome = "nullarg" -> AT24C256_ERROR_PARAM
                             [] outcome = "nomem" -> AT24C256_ERROR_MEMORY
                             [] OTHER -> AT24C256_ERROR_INIT)
    /\ out' = <<>>
    /\ log' = <<>>
    /\ UNCHANGED <<mem, mem0, ptr, w, wr, prev, ncalls>>

\* at24c256_init, called with a Device Configuration
at24c256_init == init_with(Configs)

\* at24c256_deinit
at24c256_deinit ==
    /\ CanCall
    /\ UNCHANGED ixvars
    /\ ncalls' = ncalls + 1
    /\ call' = [NoCall EXCEPT !.op = "deinit"]
    /\ out' = <<>>
    /\ CASE handle = "NULL" ->
              /\ Finish(AT24C256_ERROR_PARAM)
              /\ log' = <<>>
              /\ UNCHANGED <<handle, nopen>>
         [] handle = "live" ->
              /\ Finish(AT24C256_OK)
              /\ log' = <<Event("close", <<>>, 0, 0)>>
              /\ handle' = "dangling"
              /\ nopen' = nopen - 1
         [] OTHER ->
              \* close() of a released descriptor, free() of freed storage
              /\ \/ Finish(AT24C256_OK)
                 \/ pc' = "crashed" /\ ret' = ret
              /\ log' = <<Event("close", <<>>, 0, -1)>>
              /\ UNCHANGED <<handle, nopen>>
    /\ UNCHANGED <<initialized, config, mem, mem0, ptr, w, wr, prev>>

\* the address pointer bytes sent low byte first
addr_buffer_low_first(address) == <<address % BYTE, (address \div BYTE) % BYTE>>

\* the address pointer bytes, high byte first (lines 150-153, 195-196)
addr_buffer(address) == <<(address \div BYTE) % BYTE, address % BYTE>>

\* at24c256_read
at24c256_read ==
    /\ CanCall
    /\ UNCHANGED ixvars
    /\ \E rg \in Ranges, data_null \in BOOLEAN, notready \in NotReadyViews :
     LET address == rg[1]
         length == rg[2]
     IN
      /\ Begin([op |-> "read", address |-> address, length |-> length,
                data_null |-> data_null, data |-> <<>>])
      /\ LET chk == check_address_length(notready, address, length)
             ab == addr_buffer(address)
         IN IF chk # AT24C256_OK
            THEN /\ Finish(chk)
                 /\ out' = <<>> /\ log' = <<>> /\ ptr' = ptr
            ELSE IF data_null
            THEN /\ Finish(AT24C256_ERROR_PARAM)
                 /\ out' = <<>> /\ log' = <<>> /\ ptr' = ptr
            ELSE \E r1 \in (IF FdOpen THEN WriteResults(2) ELSE {-1}) :
                   LET e1 == Event("write", ab, 2, r1)
                       p1 == IF r1 = 2 THEN DevPointer(ab, config.total_size)
                             ELSE ptr
                   IN IF r1 # 2
                      THEN /\ Finish(AT24C256_ERROR_READ)
                           /\ out' = <<>> /\ log' = <<e1>> /\ ptr' = p1
                      ELSE \E r2 \in (IF FdOpen THEN ReadResults(length) ELSE {-1}) :
                             LET got == IF r2 > 0 THEN r2 ELSE 0
                                 e2 == Event("read", <<>>, length, r2)
                             IN /\ out' = DevRead(mem, p1, got, config.total_size)
                                /\ ptr' = (p1 + got) % config.total_size
                                /\ log' = <<e1, e2>>
                                /\ Finish(IF r2 # length THEN AT24C256_ERROR_READ
                                          ELSE AT24C256_OK)
      /\ UNCHANGED <<handle, initialized, config, nopen, mem, mem0, w, wr>>

\* at24c256_write, entry: validation and loop set-up (lines 168-181)
WriteEntry(op, address, length, data_null, data, notready) ==
    /\ Begin([op |-> op, address |-> address, length |-> length,
              data_null |-> data_null, data |-> data])
    /\ LET chk == check_address_length(notready, address, length)
       IN /\ out' = <<>>
          /\ log' = <<>>
          /\ IF chk # AT24C256_OK
             THEN Finish(chk) /\ w' = w
             ELSE IF data_null
             THEN Finish(AT24C256_ERROR_PARAM) /\ w' = w
             ELSE /\ w' = [remaining |-> length, current_addr |-> address,
                           current_data |-> 0]
                  /\ IF length > 0
                     THEN pc' = "write_loop" /\ ret' = ret
                     ELSE Finish(AT24C256_OK)
    /\ UNCHANGED <<handle, initialized, config, nopen, mem, mem0, ptr, wr>>

at24c256_write ==
    /\ CanCall
    /\ UNCHANGED ixvars
    /\ \E rg \in Ranges, seed \in DataSeeds, data_null \in BOOLEAN,
       notready \in NotReadyViews :
      WriteEntry("write", rg[1], rg[2], data_null,
                 IF data_null THEN <<>> ELSE Buffer(seed, rg[2]), notready)

\* mutant: the room left in the page is taken from the page start
bytes_in_page_aligned(current_addr, remaining, page_size) ==
    IF page_size > remaining THEN remaining ELSE page_size

\* mutant: one byte is sent per transaction
bytes_in_page_single(current_addr, remaining, page_size) == 1

\* mutant: the whole remainder is sent in one transaction
bytes_in_page_nosplit(current_addr, remaining, page_size) == remaining

\* bytes_in_page of one loop iteration (lines 185-191)
bytes_in_page(current_addr, remaining, page_size) ==
    LET page_offset == current_addr % page_size
        in_page == (page_size - page_offset) % UINT16
    IN IF in_page > remaining THEN remaining ELSE in_page

\* mutant: the chunk is always copied from the start of data
chunk_buffer_rewind(current_addr, data, current_data, n) ==
    <<(current_addr \div BYTE) % BYTE, current_addr % BYTE>> \o SubSeq(data, 1, n)

\* buffer of one loop iteration: address pointer, then the chunk (lines 194-197)
chunk_buffer(current_addr, data, current_data, n) ==
    addr_buffer(current_addr) \o SubSeq(data, current_data + 1, current_data + n)

\* mutant: only an error return counts as a failed transfer
short_write_errors_only(bytes_written, n) == bytes_written < 0

\* the test on write()'s count (line 201)
short_write(bytes_written, n) == bytes_written # n + 2

\* mutant: the delay is passed to usleep in milliseconds
settle_usec_unscaled(write_delay_ms) == write_delay_ms

\* argument of the settle usleep (line 206)
settle_usec(write_delay_ms) == write_delay_ms * 1000

\* at24c256_write, one loop iteration up to the write() call (lines 183-203)
WriteChunk ==
    /\ pc = "write_loop"
    /\ UNCHANGED ixvars
    /\ w.remaining > 0
    /\ config.page_size > 0
    /\ LET n == bytes_in_page(w.current_addr, w.remaining, config.page_size)
           buffer == chunk_buffer(w.current_addr, call.data, w.current_data, n)
       IN \E r \in (IF FdOpen THEN WriteResults(n + 2) ELSE {-1}) :
            LET done == DevAccepted(r) IN
              /\ log' = Append(log, Event("write", buffer, n + 2, r))
              /\ mem' = IF done = 0 THEN mem
                        ELSE DevPageWrite(mem, DevPointer(buffer, config.total_size),
                                          SubSeq(buffer, 3, 2 + done),
                                          config.page_size, config.total_size)
              /\ ptr' = IF FdOpen /\ r > 1
                        THEN (DevPointer(buffer, config.total_size) + done)
                                 % config.total_size
                        ELSE ptr
              /\ IF short_write(r, n)
                 THEN Finish(AT24C256_ERROR_WRITE)
                 ELSE pc' = "write_settle" /\ ret' = ret
    /\ UNCHANGED <<handle, initialized, config, nopen, mem0, call, w, wr,
                   out, prev, ncalls>>

\* mutant: the settle delay only between two chunks, none after the last
settle_between_chunks(left, usec) == IF left > 0 THEN <<usec>> ELSE <<>>

\* the sleeps that follow a transferred chunk when left bytes remain: line 206
\* stands under no test on remaining, so the last chunk is followed by one too
settle_sleeps(left, usec) == <<usec>>

\* at24c256_write, rest of the iteration and the loop test (lines 205-214)
WriteSettle ==
    /\ pc = "write_settle"
    /\ UNCHANGED ixvars
    /\ LET n == bytes_in_page(w.current_addr, w.remaining, config.page_size)
           left == (w.remaining - n) % UINT16
           sleeps == settle_sleeps(left, settle_usec(config.write_delay_ms))
       IN /\ log' = log \o [i \in 1 .. Len(sleeps) |->
                                Event("usleep", <<>>, sleeps[i], 0)]
          /\ w' = [remaining |-> left,
                   current_addr |-> (w.current_addr + n) % UINT16,
                   current_data |-> w.current_data + n]
          /\ IF left > 0
             THEN pc' = "write_loop" /\ ret' = ret
             ELSE Finish(AT24C256_OK)
    /\ UNCHANGED <<handle, initialized, config, nopen, mem, mem0, ptr, call,
                   wr, out, prev, ncalls>>

\* mutant: the erase buffer is cleared to zero
erase_data_zero(length) == [i \in 1 .. Min(length, TotalSize + 1) |-> 0]

\* the erase buffer (lines 224-229)
erase_data(length) == [i \in 1 .. Min(length, TotalSize + 1) |-> ERASE_BYTE]

\* at24c256_erase
at24c256_erase ==
    /\ CanCall
    /\ UNCHANGED ixvars
    /\ \E rg \in Ranges, nomem \in BOOLEAN, notready \in NotReadyViews :
     LET address == rg[1]
         length == rg[2]
     IN
      IF check_address_length(notready, address, length) = AT24C256_OK /\ nomem
      THEN /\ Begin([op |-> "erase", address |-> address, length |-> length,
                     data_null |-> TRUE, data |-> <<>>])
           /\ Finish(AT24C256_ERROR_MEMORY)
           /\ out' = <<>>
           /\ log' = <<>>
           /\ UNCHANGED <<handle, initialized, config, nopen, mem, mem0, ptr, w, wr>>
      ELSE WriteEntry("erase", address, length, FALSE,
                      erase_data(length), notready)

\* the caller gets a zeroed configuration
get_info_zeroed(c) == NoConfig

\* *config = handle->config (line 251)
get_info_copy(c) == c

\* at24c256_get_info
at24c256_get_info ==
    /\ CanCall
    /\ UNCHANGED ixvars
    /\ \E config_null \in BOOLEAN, notready \in NotReadyViews :
      /\ Begin([NoCall EXCEPT !.op = "get_info", !.data_null = config_null])
      /\ IF notready \/ config_null
         THEN Finish(AT24C256_ERROR_PARAM) /\ out' = <<>>
         ELSE Finish(AT24C256_OK) /\ out' = <<get_info_copy(config)>>
      /\ log' = <<>>
      /\ UNCHANGED <<handle, initialized, config, nopen, mem, mem0, ptr, w, wr>>

\* struct timespec
timespec(sec, nsec) == [tv_sec |-> sec, tv_nsec |-> nsec]

\* the clock ns nanoseconds after it showed ts
clock_after(ts, ns) ==
    timespec(ts.tv_sec + ((ts.tv_nsec + ns) \div NSEC_PER_SEC),
             (ts.tv_nsec + ns) % NSEC_PER_SEC)

\* nanoseconds from one clock reading to a later one
NsBetween(from, to) ==
    (to.tv_sec - from.tv_sec) * NSEC_PER_SEC + (to.tv_nsec - from.tv_nsec)

\* the clock when internal_wait_ready reads start: at the beginning of a
\* second, or in its last nanosecond
StartTimes == { timespec(0, 0), timespec(0, NSEC_PER_SEC - 1) }

\* nanoseconds a poll attempt takes: next to nothing, or a millisecond
PollNsecs == {1, NSEC_PER_MSEC}

\* the / of C on signed operands: the quotient is truncated toward zero
c_div(a, b) == IF a >= 0 THEN a \div b ELSE -((-a) \div b)

\* elapsed_ms of internal_wait_ready (lines 78-79)
elapsed_ms_of(start, current) ==
    (current.tv_sec - start.tv_sec) * MSEC_PER_SEC
      + c_div(current.tv_nsec - start.tv_nsec, NSEC_PER_MSEC)

\* at24c256_wait_ready, entry (lines 238-244, 66-69)
at24c256_wait_ready ==
    /\ CanCall
    /\ UNCHANGED ixvars
    /\ \E timeout_ms \in 0 .. MaxTimeout, notready \in NotReadyViews,
          start \in StartTimes :
      /\ Begin([NoCall EXCEPT !.op = "wait_ready", !.length = timeout_ms])
      /\ out' = <<>>
      /\ log' = <<>>
      /\ IF notready
         THEN Finish(AT24C256_ERROR_INIT) /\ wr' = wr
         ELSE /\ pc' = "wait_loop"
              /\ ret' = ret
              /\ wr' = [timeout_ms |-> timeout_ms, start |-> start,
                        now |-> start]
      /\ UNCHANGED <<handle, initialized, config, nopen, mem, mem0, ptr, w>>

\* the timeout test passing only on the exact millisecond
timed_out_exact(elapsed_ms, timeout_ms) == elapsed_ms = timeout_ms

\* the timeout test of internal_wait_ready (line 81)
timed_out(elapsed_ms, timeout_ms) == elapsed_ms >= timeout_ms

\* internal_wait_ready, one loop iteration (lines 71-86): the poll attempt
\* takes d nanoseconds, the clock is read, and the sleep at the end takes
\* POLL_USEC microseconds
WaitPoll ==
    /\ pc = "wait_loop"
    /\ UNCHANGED ixvars
    /\ \E r \in (IF FdOpen THEN {-1, 0, 1} ELSE {-1}), d \in PollNsecs :
         LET current == clock_after(wr.now, d)
             elapsed_ms == elapsed_ms_of(wr.start, current)
             poll == Event("read", <<>>, 1, r)
         IN /\ ptr' = IF r = 1 THEN (ptr + 1) % config.total_size ELSE ptr
            /\ IF r >= 0
               THEN /\ Finish(AT24C256_OK)
                    /\ log' = Append(log, poll)
                    /\ wr' = wr
               ELSE IF timed_out(elapsed_ms, wr.timeout_ms)
               THEN /\ Finish(AT24C256_ERROR_TIMEOUT)
                    /\ log' = Append(log, poll)
                    /\ wr' = [wr EXCEPT !.now = current]
               ELSE /\ pc' = "wait_loop"
                    /\ ret' = ret
                    /\ log' = Append(log, poll)
                                  \o <<Event("usleep", <<>>, POLL_USEC, 0)>>
                    /\ wr' = [wr EXCEPT !.now =
                                 clock_after(current, POLL_USEC * NSEC_PER_USEC)]
    /\ UNCHANGED <<handle, initialized, config, nopen, mem, mem0, call, w,
                   out, prev, ncalls>>

\* Return: the finished call's result is consumed by the caller; the locals
\* of the call are gone
Return ==
    /\ pc = "done"
    /\ UNCHANGED ixvars
    /\ pc' = "idle"
    /\ prev' = IF call.op \in {"write", "erase"} /\ log # <<>> /\ AllFull(log)
               THEN [op |-> call.op, address |-> call.address,
                     length |-> call.length, data |-> call.data,
                     ret |-> ret,
                     cycle_left |-> CycleLeft(log, prev.cycle_left)]
               ELSE [NoPrev EXCEPT
                        !.cycle_left = CycleLeft(log, prev.cycle_left)]
    /\ call' = NoCall
    /\ ret' = AT24C256_OK
    /\ out' = <<>>
    /\ log' = <<>>
    /\ mem0' = mem
    /\ w' = NoWrite
    /\ wr' = NoWait
    /\ UNCHANGED <<handle, initialized, config, nopen, mem, ptr, ncalls>>

Init ==
    /\ handle = "NULL"
    /\ initialized = FALSE
    /\ config = NoConfig
    /\ nopen = 0
    /\ mem \in InitImages
    /\ mem0 = mem
    /\ ptr = 0
    /\ pc = "idle"
    /\ call = NoCall
    /\ w = NoWrite
    /\ wr = NoWait
    /\ ret = AT24C256_OK
    /\ out = <<>>
    /\ log = <<>>
    /\ prev = NoPrev
    /\ ncalls = 0
    /\ NoPrograms

Next ==
    \/ at24c256_init
    \/ at24c256_deinit
    \/ at24c256_read
    \/ at24c256_write
    \/ WriteChunk
    \/ WriteSettle
    \/ at24c256_erase
    \/ at24c256_get_info
    \/ at24c256_wait_ready
    \/ WaitPoll
    \/ Return

Spec == Init /\ [][Next]_vars

\* ------------------------------------------- any configuration at init
\* iterations of the write loop followed when page_size is 0
MaxZeroPageRounds == 2

\* what a caller can put into an at24c256_config_t: page_size and total_size
\* are plain unsigned fields, 0 included
AnyConfigs ==
    { at24c256_config_t(p, t) : p \in {0, PageSize}, t \in {0, TotalSize} }

\* at24c256_init, called with any configuration
at24c256_init_any == init_with(AnyConfigs)

\* current_addr % page_size with page_size = 0 (line 185): the division
\* traps and the process dies, or it yields 0 and the remainder is the
\* dividend
RemainderByZero(a) ==
    { [trap |-> TRUE, rem |-> 0], [trap |-> FALSE, rem |-> a] }

\* at24c256_write, one loop iteration on a handle whose page_size is 0
\* (lines 183-212); the device is the one of PageSize and TotalSize
WriteZeroPage ==
    /\ pc = "write_loop"
    /\ UNCHANGED ixvars
    /\ w.remaining > 0
    /\ config.page_size = 0
    /\ Len(log) < 2 * MaxZeroPageRounds
    /\ \E o \in RemainderByZero(w.current_addr) :
         IF o.trap
         THEN /\ pc' = "crashed"
              /\ UNCHANGED <<ret, log, mem, ptr, w>>
         ELSE LET page_offset == o.rem
                  in_page == (config.page_size - page_offset) % UINT16
                  n == IF in_page > w.remaining THEN w.remaining ELSE in_page
                  left == (w.remaining - n) % UINT16
                  buffer == chunk_buffer(w.current_addr, call.data,
                                         w.current_data, n)
              IN \E r \in (IF FdOpen THEN WriteResults(n + 2) ELSE {-1}) :
                   LET done == DevAccepted(r)
                       e == Event("write", buffer, n + 2, r)
                   IN /\ mem' = IF done = 0 THEN mem
                                ELSE DevPageWrite(mem,
                                         DevPointer(buffer, TotalSize),
                                         SubSeq(buffer, 3, 2 + done),
                                         PageSize, TotalSize)
                      /\ ptr' = IF FdOpen /\ r > 1
                                THEN (DevPointer(buffer, TotalSize) + done)
                                         % TotalSize
                                ELSE ptr
                      /\ IF short_write(r, n)
                         THEN /\ Finish(AT24C256_ERROR_WRITE)
                              /\ log' = Append(log, e)
                              /\ w' = w
                         ELSE /\ log' = log \o
                                   <<e, Event("usleep", <<>>,
                                        settle_usec(config.write_delay_ms), 0)>>
                              /\ w' = [remaining |-> left,
                                       current_addr |->
                                           (w.current_addr + n) % UINT16,
                                       current_data |-> w.current_data + n]
                              /\ IF left > 0
                                 THEN pc' = "write_loop" /\ ret' = ret
                                 ELSE Finish(AT24C256_OK)
    /\ UNCHANGED <<handle, initialized, config, nopen, mem0, call, wr, out,
                   prev, ncalls>>

ConfigNext ==
    \/ at24c256_init_any
    \/ at24c256_deinit
    \/ at24c256_write
    \/ WriteChunk
    \/ WriteZeroPage
    \/ WriteSettle
    \/ at24c256_get_info
    \/ Return

SpecConfig == Init /\ [][ConfigNext]_vars

\* ------------------------------------- a device of the full address width
\* bytes below the top of the 16-bit address space at which the calls on the
\* full-width device start, and their greatest length less one
MaxTopBytes == 3

\* the largest device a 16-bit address can cover
WideTotalSize == UINT16

\* the default device and the full-width one
WideConfigs ==
    { at24c256_config_t(PageSize, UINT16 \div 2),
      at24c256_config_t(PageSize, WideTotalSize) }

\* ranges at the top of the address space: ending below, at and past
\* address 65535, and the uint16_t extremes
WideRanges ==
    { <<WideTotalSize - b, n>> : b \in 1 .. MaxTopBytes,
                                n \in 1 .. MaxTopBytes + 1 }
    \cup { <<UINT16_MAX, UINT16_MAX>>, <<2, UINT16_MAX>> }

\* the cells of the full-width device that are kept: those within a page and
\* MaxTopBytes of the bottom, the middle and the top of the address space; the
\* calls on this device reach no other cell
WideCells ==
    LET half == UINT16 \div 2
        margin == PageSize + MaxTopBytes + 1
    IN { a \in 0 .. WideTotalSize - 1 :
           a % half < margin \/ a % half >= half - margin }

\* image of the full-width device before the first call
WideImage == [a \in WideCells |-> (16 * a + 3) % BYTE]

at24c256_init_wide == init_with(WideConfigs)

\* at24c256_write on the full-width device
at24c256_write_wide ==
    /\ CanCall
    /\ UNCHANGED ixvars
    /\ \E rg \in WideRanges, seed \in DataSeeds, notready \in NotReadyViews :
         WriteEntry("write", rg[1], rg[2], FALSE, Buffer(seed, rg[2]),
                    notready)

WideInit ==
    /\ handle = "NULL"
    /\ initialized = FALSE
    /\ config = NoConfig
    /\ nopen = 0
    /\ mem = WideImage
    /\ mem0 = mem
    /\ ptr = 0
    /\ pc = "idle"
    /\ call = NoCall
    /\ w = NoWrite
    /\ wr = NoWait
    /\ ret = AT24C256_OK
    /\ out = <<>>
    /\ log = <<>>
    /\ prev = NoPrev
    /\ ncalls = 0
    /\ NoPrograms

WideNext ==
    \/ at24c256_init_wide
    \/ at24c256_write_wide
    \/ WriteChunk
    \/ WriteSettle
    \/ Return

SpecWide == WideInit /\ [][WideNext]_vars

\* ------------------------------------------------------- file index layer
\* camera_data_write.c and camera_data_read.c over the driver.  The layout
\* is the source's with three capacities scaled down.
MAX_FILES == 2
MAX_FILENAME_LENGTH == 2
\* bytes of the device behind the directory region
PayloadSpace == 5

EEPROM_START_ADDRESS == 0
MAGIC == <<67, 65, 77, 0>>
INDEX_VERSION == 1
RESERVED_LENGTH == 8

\* sizeof(index_header_t): magic[4], version, file_count, total_size,
\* reserved[8]
sizeof_index_header_t == Len(MAGIC) + 1 + 1 + 2 + RESERVED_LENGTH

\* offsetof(file_index_t, address): the uint16_t is aligned to 2 bytes
offsetof_address == MAX_FILENAME_LENGTH + (MAX_FILENAME_LENGTH % 2)

\* sizeof(file_index_t): filename, address, size, checksum, padded to a
\* multiple of the uint16_t alignment
sizeof_file_index_t == offsetof_address + 6

\* first payload address (process_camera_parameters, line 145)
PayloadStart ==
    (EEPROM_START_ADDRESS + sizeof_index_header_t
        + MAX_FILES * sizeof_file_index_t) % UINT16

\* the attached device: the directory region and PayloadSpace bytes
IndexTotalSize == PayloadStart + PayloadSpace

\* MAX_FILE_SIZE is the size of the whole device (32 * 1024)
MAX_FILE_SIZE == IndexTotalSize

\* AT24C256_DEFAULT_CONFIG on that device
AT24C256_DEFAULT_CONFIG == at24c256_config_t(PageSize, IndexTotalSize)

\* exclusive or of two bytes
RECURSIVE Xor(_, _)
Xor(a, b) ==
    IF a = 0 /\ b = 0 THEN 0
    ELSE (((a % 2) + (b % 2)) % 2) + 2 * Xor(a \div 2, b \div 2)

\* the checksum of one byte more than the data
RECURSIVE calculate_checksum_seeded(_)
calculate_checksum_seeded(data) ==
    IF data = <<>> THEN 1
    ELSE Xor(calculate_checksum_seeded(SubSeq(data, 1, Len(data) - 1)),
             data[Len(data)])

\* calculate_checksum
RECURSIVE calculate_checksum(_)
calculate_checksum(data) ==
    IF data = <<>> THEN 0
    ELSE Xor(calculate_checksum(SubSeq(data, 1, Len(data) - 1)),
             data[Len(data)])

\* a uint16_t in memory, host byte order (little-endian)
le16(v) == <<v % BYTE, (v \div BYTE) % BYTE>>
from_le16(b) == b[1] + BYTE * b[2]

\* strncpy(filename, name, MAX_FILENAME_LENGTH - 1) and the terminator
\* stored in the last array element
strncpy_filename(name) ==
    [i \in 1 .. MAX_FILENAME_LENGTH |->
        IF i <= Len(name) /\ i < MAX_FILENAME_LENGTH THEN name[i] ELSE 0]

\* fields of a file_index_t held as raw bytes
entry_filename(e) == SubSeq(e, 1, MAX_FILENAME_LENGTH)
entry_address(e) == from_le16(SubSeq(e, offsetof_address + 1, offsetof_address + 2))
entry_size(e) == from_le16(SubSeq(e, offsetof_address + 3, offsetof_address + 4))
entry_checksum(e) == e[offsetof_address + 5]

\* the string a char array holds: the bytes before the first NUL
RECURSIVE c_string(_)
c_string(b) ==
    IF b = <<>> \/ b[1] = 0 THEN <<>> ELSE <<b[1]>> \o c_string(Tail(b))

\* a file_index_t after write_file_to_eeprom has stored its four fields
\* (lines 122-127); the padding bytes keep what the array held
fill_file_info(e, name, address, size, checksum) ==
    [i \in 1 .. sizeof_file_index_t |->
        IF i <= MAX_FILENAME_LENGTH THEN strncpy_filename(name)[i]
        ELSE IF i \in {offsetof_address + 1, offsetof_address + 2}
        THEN le16(address % UINT16)[i - offsetof_address]
        ELSE IF i \in {offsetof_address + 3, offsetof_address + 4}
        THEN le16(size % UINT16)[i - offsetof_address - 2]
        ELSE IF i = offsetof_address + 5 THEN checksum
        ELSE e[i]]

\* the header always announces every slot of the directory
header_bytes_all_slots(count, total_size) ==
    MAGIC \o <<INDEX_VERSION, MAX_FILES>> \o le16(total_size % UINT16)
          \o [i \in 1 .. RESERVED_LENGTH |-> 0]

\* an index_header_t as raw bytes (write_file_index, lines 192-202)
header_bytes(count, total_size) ==
    MAGIC \o <<INDEX_VERSION, count % BYTE>> \o le16(total_size % UINT16)
          \o [i \in 1 .. RESERVED_LENGTH |-> 0]

header_magic(h) == SubSeq(h, 1, Len(MAGIC))
header_file_count(h) == h[Len(MAGIC) + 2]
header_total_size(h) == from_le16(SubSeq(h, Len(MAGIC) + 3, Len(MAGIC) + 4))

\* ---- the driver as the programs call it: one call, start to return
\* chunk transfers at24c256_write makes for a range (loop, lines 183-212)
RECURSIVE chunk_count(_, _)
chunk_count(current_addr, remaining) ==
    IF remaining = 0 THEN 0
    ELSE LET n == bytes_in_page(current_addr, remaining, config.page_size)
         IN 1 + chunk_count((current_addr + n) % UINT16, remaining - n)

\* device contents after the first k chunk transfers of at24c256_write
RECURSIVE write_chunks(_, _, _, _, _)
write_chunks(m, current_addr, data, current_data, k) ==
    IF k = 0 \/ current_data >= Len(data) THEN m
    ELSE LET n == bytes_in_page(current_addr, Len(data) - current_data,
                                config.page_size)
             buffer == chunk_buffer(current_addr, data, current_data, n)
         IN write_chunks(
              DevPageWrite(m, DevPointer(buffer, config.total_size),
                           SubSeq(buffer, 3, 2 + n),
                           config.page_size, config.total_size),
              (current_addr + n) % UINT16, data, current_data + n, k - 1)

\* at24c256_write(handle, address, data, Len(data)) on the Ready handle, k
\* chunk transfers going through before the channel fails
driver_write(m, address, data, k) ==
    LET chk == check_address_length(FALSE, address, Len(data))
        all == chunk_count(address, Len(data))
    IN IF chk # AT24C256_OK THEN [ret |-> chk, mem |-> m]
       ELSE [ret |-> IF k >= all THEN AT24C256_OK ELSE AT24C256_ERROR_WRITE,
             mem |-> write_chunks(m, address, data, 0, Min(k, all))]

\* the channel lets every chunk through, or fails at the first or at the
\* last chunk of the call
WriteCuts(address, length) ==
    IF check_address_length(FALSE, address, length) # AT24C256_OK THEN {0}
    ELSE {0, chunk_count(address, length) - 1, chunk_count(address, length)}

\* at24c256_read(handle, address, buffer, length) on the Ready handle; got
\* is the number of bytes the channel delivered
driver_read(m, address, buffer, length, got) ==
    LET chk == check_address_length(FALSE, address, length)
    IN IF chk # AT24C256_OK THEN [ret |-> chk, data |-> buffer]
       ELSE [ret |-> IF got = length THEN AT24C256_OK
                     ELSE AT24C256_ERROR_READ,
             data |-> [i \in 1 .. length |->
                        IF i <= got
                        THEN DevRead(m, DevPointer(addr_buffer(address),
                                                   config.total_size),
                                     got, config.total_size)[i]
                        ELSE buffer[i]]]

\* every byte delivered, or one byte short
ReadCuts(address, length) ==
    IF check_address_length(FALSE, address, length) # AT24C256_OK THEN {0}
    ELSE {length, length - 1}

\* one entry of the programs' trace of driver calls: the calling function,
\* the driver operation, its range and its result
DriverCall(by, op, address, length, r) ==
    [by |-> by, op |-> op, address |-> address, length |-> length, ret |-> r]

\* a run of at24c256_write calls that stops at the first failure: reqs are
\* the <<address, data>> arguments, call j goes wrong after k chunks
RECURSIVE write_calls(_, _, _, _, _, _)
write_calls(by, m, reqs, i, j, k) ==
    IF i > Len(reqs) THEN [mem |-> m, calls |-> <<>>, ok |-> TRUE]
    ELSE LET address == reqs[i][1]
             data == reqs[i][2]
             all == chunk_count(address, Len(data))
             r == driver_write(m, address, data, IF i = j THEN k ELSE all)
             c == DriverCall(by, "write", address, Len(data), r.ret)
         IN IF r.ret # AT24C256_OK
            THEN [mem |-> r.mem, calls |-> <<c>>, ok |-> FALSE]
            ELSE LET rest == write_calls(by, r.mem, reqs, i + 1, j, k)
                 IN [mem |-> rest.mem, calls |-> <<c>> \o rest.calls,
                     ok |-> rest.ok]

\* where a run of n driver calls can go wrong: nowhere (0), at its first
\* or at its last call
FailingCalls(n) == {0, 1, n}

\* ---- inputs of the two programs
\* a .dat file of camera_parameters: base name and contents
Blob(name, data) == [name |-> name, data |-> data]

\* the files: two that fill the payload space of the smallest device, an
\* empty one, and one larger than MAX_FILE_SIZE
BlobPool ==
    { Blob(<<97>>, <<1, 2, 3>>),
      Blob(<<98>>, <<4, 5>>),
      Blob(<<101>>, <<>>),
      Blob(<<104>>, [i \in 1 .. MAX_FILE_SIZE + 1 |-> 9]) }

\* a listing of one file more than files[] has room for, one byte each
LongListing == [i \in 1 .. MAX_FILES + 1 |-> Blob(<<48 + i>>, <<i>>)]

\* directory listings: up to MAX_FILES different files in any order, and
\* the long one
BlobLists ==
    { l \in UNION { [1 .. n -> BlobPool] : n \in 0 .. MAX_FILES } :
        \A i, j \in DOMAIN l : i # j => l[i] # l[j] }
      \cup {LongListing}

\* what main's files[] holds before anything is stored in it
StackBytes == {165}
StackFiles(b) ==
    [i \in 1 .. MAX_FILES |-> [j \in 1 .. sizeof_file_index_t |-> b]]

\* bytes stored at address and after (a driver write that went through)
Place(m, address, bytes) ==
    [a \in DOMAIN m |->
        IF a >= address /\ a < address + Len(bytes)
        THEN bytes[(a - address) + 1] ELSE m[a]]

\* the listing of an earlier run of the write program
EarlierFiles == <<Blob(<<111>>, <<6, 8>>), Blob(<<112>>, <<7>>)>>

\* ---- camera_data_write
\* the process ends: at24c256_deinit where the handle is open, then exit
ProgramExit(status, at) ==
    /\ exit_status' = IF at = "written"
                      THEN [exit_status EXCEPT !.write = status]
                      ELSE [exit_status EXCEPT !.read = status]
    /\ ipc' = at
    /\ handle' = "NULL"
    /\ initialized' = FALSE
    /\ nopen' = 0

\* main of camera_data_write up to the erase option (lines 288-313)
write_main_init ==
    /\ ipc = "start"
    /\ \E init_ok \in BOOLEAN :
         IF init_ok
         THEN /\ handle' = "live"
              /\ initialized' = TRUE
              /\ nopen' = 1
              /\ config' = AT24C256_DEFAULT_CONFIG
              /\ ipc' = IF erase_flag THEN "erase" ELSE "process"
              /\ exit_status' = exit_status
              /\ calls' = Append(calls,
                    DriverCall("main", "init", 0, 0, AT24C256_OK))
         ELSE /\ ProgramExit("EXIT_FAILURE", "written")
              /\ config' = config
              /\ calls' = Append(calls,
                    DriverCall("main", "init", 0, 0, AT24C256_ERROR_INIT))
    /\ next_file' = 1
    /\ file_count' = 0
    /\ current_address' = PayloadStart
    /\ UNCHANGED <<mem, mem0, ptr, pc, call, w, wr, ret, out, log, prev,
                   ncalls, blobs, erase_flag, files, outdir,
                   success_count, results, tamper>>

\* size of erase_entire_eeprom's buffer: an eighth of the device (4096)
erase_chunk_size == (IndexTotalSize + 7) \div 8

\* the at24c256_write calls of erase_entire_eeprom (lines 259-273)
erase_reqs ==
    [i \in 1 .. ((IndexTotalSize + erase_chunk_size) - 1) \div erase_chunk_size |->
        <<(i - 1) * erase_chunk_size,
          [b \in 1 .. Min(erase_chunk_size,
                          IndexTotalSize - ((i - 1) * erase_chunk_size))
             |-> ERASE_BYTE]>>]

\* chunks of the failing call that go through before it fails
FailCuts(reqs, j) ==
    IF j = 0 THEN {0}
    ELSE {0, chunk_count(reqs[j][1], Len(reqs[j][2])) - 1}

\* main with --erase: erase_entire_eeprom and its failure exit (314-323)
erase_entire_eeprom ==
    /\ ipc = "erase"
    /\ \E j \in FailingCalls(Len(erase_reqs)) :
       \E k \in FailCuts(erase_reqs, j) :
         LET r == write_calls("erase_entire_eeprom", mem, erase_reqs, 1, j, k)
         IN /\ mem' = r.mem
            /\ calls' = calls \o r.calls
            /\ IF r.ok
               THEN /\ ipc' = "process"
                    /\ UNCHANGED <<handle, initialized, nopen, exit_status>>
               ELSE ProgramExit("EXIT_FAILURE", "written")
            /\ mem0' = IF r.ok THEN r.mem ELSE mem0
    /\ UNCHANGED <<config, ptr, pc, call, w, wr, ret, out, log, prev, ncalls,
                   blobs, erase_flag, files, file_count, next_file,
                   current_address, outdir, success_count, results, tamper>>

\* the address is not moved on behind the file just stored
advance_none(address, size) == address

\* mutant: the next file starts on the last byte of the one before it
advance_overlap(address, size) == ((address + size) - 1) % UINT16

\* current_address += files[*file_count - 1].size (line 174)
advance(address, size) == (address + size) % UINT16

\* the size test of write_file_to_eeprom (line 84)
too_large(file_size) == file_size > MAX_FILE_SIZE

\* what storing an entry behind the end of main's files[] can do: the stack
\* behind the array takes the bytes and the program goes on, or the process
\* is killed
OverflowOutcomes == {"stored", "killed"}

\* files[] after write_file_to_eeprom has filled files[file_count]; an index
\* behind the array lands in the stack that follows it
store_file_info(fl, count, name, address, size, checksum) ==
    IF count < Len(fl)
    THEN [fl EXCEPT ![count + 1] =
             fill_file_info(@, name, address, size, checksum)]
    ELSE Append(fl, fill_file_info(
                      [j \in 1 .. sizeof_file_index_t |->
                          CHOOSE b \in StackBytes : TRUE],
                      name, address, size, checksum))

\* process_camera_parameters, one file of the listing: write_file_to_eeprom
\* and the bookkeeping of lines 172-178
process_camera_parameters ==
    /\ ipc = "process"
    /\ next_file <= Len(blobs)
    /\ LET name == blobs[next_file].name
           data == blobs[next_file].data
           file_size == Len(data)
       IN IF too_large(file_size)
          THEN UNCHANGED <<mem, calls, files, file_count, current_address,
                           handle, initialized, nopen, ipc, exit_status>>
          ELSE \E malloc_null \in (IF file_size = 0 THEN BOOLEAN ELSE {FALSE}) :
               \E k \in WriteCuts(current_address, file_size) :
               \E outcome \in (IF file_count >= MAX_FILES
                                THEN OverflowOutcomes ELSE {"stored"}) :
                 LET r == driver_write(mem, current_address, data, k)
                 IN IF malloc_null
                    THEN UNCHANGED <<mem, calls, files, file_count,
                                     current_address, handle, initialized,
                                     nopen, ipc, exit_status>>
                    ELSE /\ mem' = r.mem
                         /\ calls' = Append(calls,
                               DriverCall("write_file_to_eeprom", "write",
                                          current_address, file_size, r.ret))
                         /\ IF r.ret # AT24C256_OK
                            THEN UNCHANGED <<files, file_count,
                                             current_address, handle,
                                             initialized, nopen, ipc,
                                             exit_status>>
                            ELSE IF outcome = "killed"
                            THEN /\ ProgramExit("killed", "written")
                                 /\ UNCHANGED <<files, file_count,
                                                current_address>>
                            ELSE /\ files' = store_file_info(files,
                                       file_count, name, current_address,
                                       file_size, calculate_checksum(data))
                                 /\ file_count' = file_count + 1
                                 /\ current_address' =
                                       advance(current_address,
                                               file_size % UINT16)
                                 /\ UNCHANGED <<handle, initialized, nopen,
                                                ipc, exit_status>>
    /\ next_file' = next_file + 1
    /\ UNCHANGED <<config, mem0, ptr, pc, call, w, wr, ret, out, log, prev,
                   ncalls, blobs, erase_flag, outdir, success_count, results,
                   tamper>>

\* mutant: the last entry is left out of the sum
RECURSIVE total_size_sum_but_last(_, _)
total_size_sum_but_last(fl, n) ==
    IF n <= 1 THEN 0
    ELSE (total_size_sum_but_last(fl, n - 1) + entry_size(fl[n - 1])) % UINT16

\* header.total_size: the sizes added up in a uint16_t (lines 196-202)
RECURSIVE total_size_sum(_, _)
total_size_sum(fl, n) ==
    IF n = 0 THEN 0
    ELSE (total_size_sum(fl, n - 1) + entry_size(fl[n])) % UINT16

\* the at24c256_write calls of write_file_index (lines 208, 215-222)
index_reqs(fl, n) ==
    <<<<EEPROM_START_ADDRESS, header_bytes(n, total_size_sum(fl, n))>>>>
    \o [i \in 1 .. n |->
          <<(EEPROM_START_ADDRESS + sizeof_index_header_t
               + (i - 1) * sizeof_file_index_t) % UINT16, fl[i]>>]

\* the directory is written whatever the number of files
index_due_always(processed_count) == TRUE

\* main's test before write_file_index (line 330)
index_due(processed_count) == processed_count > 0

\* main after process_camera_parameters: write_file_index, deinit and the
\* exit status (lines 328-354)
write_main_index ==
    /\ ipc = "process"
    /\ next_file > Len(blobs)
    /\ LET processed_count == file_count
           reqs == index_reqs(files, file_count)
       IN IF index_due(processed_count)
          THEN \E j \in FailingCalls(Len(reqs)) :
               \E k \in FailCuts(reqs, j) :
                 LET r == write_calls("write_file_index", mem, reqs, 1, j, k)
                 IN /\ mem' = r.mem
                    /\ calls' = calls \o r.calls
                    /\ ProgramExit(IF r.ok THEN "EXIT_SUCCESS"
                                   ELSE "EXIT_FAILURE", "written")
          ELSE /\ UNCHANGED <<mem, calls>>
               /\ ProgramExit("EXIT_FAILURE", "written")
    /\ UNCHANGED <<config, mem0, ptr, pc, call, w, wr, ret, out, log, prev,
                   ncalls, blobs, erase_flag, files, file_count, next_file,
                   current_address, outdir, success_count, results, tamper>>

\* ---- between the two programs: one byte of the header, of the address or
\* size field of a directory entry, or of the payload area changes on the
\* device a run of the write program has filled
TamperAddresses ==
    {EEPROM_START_ADDRESS, Len(MAGIC), Len(MAGIC) + 1}
      \cup { EEPROM_START_ADDRESS + sizeof_index_header_t
                + i * sizeof_file_index_t + offsetof_address + f :
              i \in 0 .. MAX_FILES - 1, f \in {0, 2} }
      \cup (PayloadStart .. IndexTotalSize - 1)

TamperValues(old) == {Xor(old, 1), ERASE_BYTE} \ {old}

Tamper ==
    /\ ipc = "written"
    /\ tamper = <<>>
    /\ exit_status.write = "EXIT_SUCCESS"
    /\ \E a \in TamperAddresses :
       \E v \in TamperValues(mem[a]) :
         /\ mem' = [mem EXCEPT ![a] = v]
         /\ tamper' = <<[address |-> a, old |-> mem[a]]>>
    /\ UNCHANGED <<handle, initialized, config, nopen, mem0, ptr, pc, call, w,
                   wr, ret, out, log, prev, ncalls, blobs, ipc, erase_flag,
                   files, file_count, next_file, current_address, calls,
                   outdir, success_count, results, exit_status>>

\* ---- camera_data_read
\* main of camera_data_read up to read_file_index (lines 313-338)
read_main_init ==
    /\ ipc = "written"
    /\ \E init_ok \in BOOLEAN, b \in StackBytes :
         /\ IF init_ok
            THEN /\ handle' = "live"
                 /\ initialized' = TRUE
                 /\ nopen' = 1
                 /\ config' = AT24C256_DEFAULT_CONFIG
                 /\ ipc' = "recover"
                 /\ exit_status' = exit_status
                 /\ calls' = Append(calls,
                       DriverCall("main", "init", 0, 0, AT24C256_OK))
            ELSE /\ ProgramExit("EXIT_FAILURE", "end")
                 /\ config' = config
                 /\ calls' = Append(calls,
                       DriverCall("main", "init", 0, 0, AT24C256_ERROR_INIT))
         /\ files' = StackFiles(b)
    /\ file_count' = 0
    /\ next_file' = 1
    /\ outdir' = <<>>
    /\ results' = <<>>
    /\ success_count' = 0
    /\ UNCHANGED <<mem, mem0, ptr, pc, call, w, wr, ret, out, log, prev,
                   ncalls, blobs, erase_flag, current_address, tamper>>

\* only the last byte of the magic is compared
bad_magic_last_byte(magic) == magic[Len(MAGIC)] # MAGIC[Len(MAGIC)]

\* the magic test of read_file_index (line 229)
bad_magic(magic) == magic # MAGIC

\* a directory that fills the array is refused as well
bad_file_count_strict(count) == count >= MAX_FILES

\* the count test of read_file_index (line 236)
bad_file_count(count) == count > MAX_FILES

\* address of the i-th entry slot as the loop computes it
\* (lines 242, 249)
index_address(i) ==
    (EEPROM_START_ADDRESS + sizeof_index_header_t + i * sizeof_file_index_t)
        % UINT16

\* the loop of read_file_index (lines 243-250) from entry i (counted from
\* 0) on: read j delivers got bytes, every other read all of them
RECURSIVE read_entries(_, _, _, _, _)
read_entries(fl, i, n, j, got) ==
    IF i >= n THEN [files |-> fl, calls |-> <<>>, ok |-> TRUE]
    ELSE LET r == driver_read(mem, index_address(i), fl[i + 1],
                              sizeof_file_index_t,
                              IF i + 1 = j THEN got ELSE sizeof_file_index_t)
             c == DriverCall("read_file_index", "read", index_address(i),
                             sizeof_file_index_t, r.ret)
             fl1 == [fl EXCEPT ![i + 1] = r.data]
         IN IF r.ret # AT24C256_OK
            THEN [files |-> fl1, calls |-> <<c>>, ok |-> FALSE]
            ELSE LET rest == read_entries(fl1, i + 1, n, j, got)
                 IN [files |-> rest.files, calls |-> <<c>> \o rest.calls,
                     ok |-> rest.ok]

\* read_file_index and main's handling of its result (lines 218-254,
\* 341-347)
read_file_index ==
    /\ ipc = "recover"
    /\ \E hgot \in ReadCuts(EEPROM_START_ADDRESS, sizeof_index_header_t) :
         LET h == driver_read(mem, EEPROM_START_ADDRESS,
                              [i \in 1 .. sizeof_index_header_t |-> 0],
                              sizeof_index_header_t, hgot)
             hc == DriverCall("read_file_index", "read",
                              EEPROM_START_ADDRESS, sizeof_index_header_t,
                              h.ret)
             n == header_file_count(h.data)
         IN IF \/ h.ret # AT24C256_OK
               \/ bad_magic(header_magic(h.data))
               \/ bad_file_count(n)
            THEN /\ calls' = Append(calls, hc)
                 /\ ProgramExit("EXIT_FAILURE", "end")
                 /\ UNCHANGED <<files, file_count>>
            ELSE \E j \in FailingCalls(n) :
                 \E got \in (IF j = 0 THEN {0}
                             ELSE {sizeof_file_index_t - 1}) :
                   LET r == read_entries(files, 0, n, j, got)
                   IN /\ calls' = Append(calls, hc) \o r.calls
                      /\ files' = r.files
                      /\ IF r.ok
                         THEN /\ file_count' = n
                              /\ ipc' = "read_files"
                              /\ UNCHANGED <<handle, initialized, nopen,
                                             exit_status>>
                         ELSE /\ file_count' = file_count
                              /\ ProgramExit("EXIT_FAILURE", "end")
    /\ UNCHANGED <<config, mem, mem0, ptr, pc, call, w, wr, ret, out, log,
                   prev, ncalls, blobs, erase_flag, next_file,
                   current_address, outdir, success_count, results, tamper>>

\* the comparison with the stored checksum is left out
checksum_differs_never(computed, stored) == FALSE

\* the checksum test of read_file_from_eeprom (line 283)
checksum_differs(computed, stored) == computed # stored

\* main's loop, one entry: read_file_from_eeprom and the success count
\* (lines 259-308, 353-357)
read_file_from_eeprom ==
    /\ ipc = "read_files"
    /\ next_file <= file_count
    /\ LET file_info == files[next_file]
           address == entry_address(file_info)
           size == entry_size(file_info)
       IN \E malloc_null \in (IF size = 0 THEN BOOLEAN ELSE {FALSE}) :
          \E got \in ReadCuts(address, size) :
            LET r == driver_read(mem, address, [i \in 1 .. size |-> 0], size,
                                 got)
                c == DriverCall("read_file_from_eeprom", "read", address,
                                size, r.ret)
                saved == [filename |-> c_string(file_info), data |-> r.data]
            IN IF malloc_null
               THEN /\ results' = Append(results, "alloc")
                    /\ UNCHANGED <<calls, outdir, success_count>>
               ELSE /\ calls' = Append(calls, c)
                    /\ IF r.ret # AT24C256_OK
                       THEN /\ results' = Append(results, "read")
                            /\ UNCHANGED <<outdir, success_count>>
                       ELSE IF checksum_differs(calculate_checksum(r.data),
                                                entry_checksum(file_info))
                       THEN /\ results' = Append(results, "checksum")
                            /\ UNCHANGED <<outdir, success_count>>
                       ELSE /\ results' = Append(results, "saved")
                            /\ outdir' = Append(outdir, saved)
                            /\ success_count' = success_count + 1
    /\ next_file' = next_file + 1
    /\ UNCHANGED <<handle, initialized, config, nopen, mem, mem0, ptr, pc,
                   call, w, wr, ret, out, log, prev, ncalls, blobs, ipc,
                   erase_flag, files, file_count, current_address,
                   exit_status, tamper>>

\* main after the loop: deinit and the exit status (lines 359-368)
read_main_exit ==
    /\ ipc = "read_files"
    /\ next_file > file_count
    /\ ProgramExit(IF success_count > 0 THEN "EXIT_SUCCESS"
                   ELSE "EXIT_FAILURE", "end")
    /\ UNCHANGED <<config, mem, mem0, ptr, pc, call, w, wr, ret, out, log,
                   prev, ncalls, blobs, erase_flag, files, file_count,
                   next_file, current_address, calls, outdir, success_count,
                   results, tamper>>

\* ---- the two programs run one after the other on one device
\* files[] after the files of listing l from the i-th on are stored at
\* address and behind, every call succeeding (lines 121-127, 172-174)
RECURSIVE stored_files(_, _, _, _)
stored_files(fl, l, i, address) ==
    IF i > Len(l) THEN fl
    ELSE stored_files(
           [fl EXCEPT ![i] = fill_file_info(@, l[i].name, address,
                                Len(l[i].data), calculate_checksum(l[i].data))],
           l, i + 1, advance(address, Len(l[i].data)))

\* the at24c256_write calls of a run over listing l in which nothing fails:
\* the payloads, then the header and the entries
run_reqs(l) ==
    LET fl == stored_files(StackFiles(0), l, 1, PayloadStart)
    IN [i \in 1 .. Len(l) |-> <<entry_address(fl[i]), l[i].data>>]
       \o index_reqs(fl, Len(l))

\* device contents after the calls of reqs from the i-th on went through
RECURSIVE place_all(_, _, _)
place_all(m, reqs, i) ==
    IF i > Len(reqs) THEN m
    ELSE place_all(Place(m, reqs[i][1], reqs[i][2]), reqs, i + 1)

\* device contents before the write program runs: what an earlier run over
\* EarlierFiles left on an erased device
IndexImages ==
    LET blank == [a \in 0 .. IndexTotalSize - 1 |-> ERASE_BYTE]
    IN { place_all(blank, run_reqs(EarlierFiles), 1) }
IndexInit ==
    /\ handle = "NULL"
    /\ initialized = FALSE
    /\ config = NoConfig
    /\ nopen = 0
    /\ mem \in IndexImages
    /\ mem0 = mem
    /\ ptr = 0
    /\ pc = "idle"
    /\ call = NoCall
    /\ w = NoWrite
    /\ wr = NoWait
    /\ ret = AT24C256_OK
    /\ out = <<>>
    /\ log = <<>>
    /\ prev = NoPrev
    /\ ncalls = 0
    /\ blobs \in BlobLists
    /\ ipc = "start"
    /\ erase_flag \in BOOLEAN
    /\ \E b \in StackBytes : files = StackFiles(b)
    /\ file_count = 0
    /\ next_file = 1
    /\ current_address = 0
    /\ calls = <<>>
    /\ outdir = <<>>
    /\ success_count = 0
    /\ results = <<>>
    /\ exit_status = [write |-> "none", read |-> "none"]
    /\ tamper = <<>>

IndexNext ==
    \/ write_main_init
    \/ erase_entire_eeprom
    \/ process_camera_parameters
    \/ write_main_index
    \/ Tamper
    \/ read_main_init
    \/ read_file_index
    \/ read_file_from_eeprom
    \/ read_main_exit

SpecIndex == IndexInit /\ [][IndexNext]_vars

\* ------------------------------------------------------------ properties
\* the handle is in the Ready state
Ready == handle = "live" /\ initialized

\* an API call has returned and its result is in ret, out and log
Returned(ops) == pc = "done" /\ call.op \in ops

\* the page-write transactions of a trace, in order
Chunks(l) == SelectSeq(l, LAMBDA e : e.kind = "write")
ChunkAddr(e) == e.buffer[1] * BYTE + e.buffer[2]
ChunkLen(e) == Len(e.buffer) - 2
ChunkData(e) == SubSeq(e.buffer, 3, Len(e.buffer))

\* C1: on a Ready handle, a write over a valid range whose transfers all
\* completed in full, followed by a read over the same range whose transfers
\* all completed in full, returns OK twice and the read yields the bytes written
C1_WriteThenRead ==
    (/\ Returned({"read"})
     /\ Ready
     /\ ~call.data_null
     /\ prev.op = "write"
     /\ prev.address = call.address
     /\ prev.length = call.length
     /\ AllFull(log))
    => (/\ prev.ret = AT24C256_OK
        /\ ret = AT24C256_OK
        /\ out = prev.data)

\* C1 witness: a write that crosses a page boundary from an unaligned
\* address has been read back
C1_Witness ==
    /\ Returned({"read"})
    /\ Ready
    /\ prev.op = "write"
    /\ prev.address = call.address
    /\ prev.length = call.length
    /\ call.address % config.page_size # 0
    /\ call.length > config.page_size
    /\ ret = AT24C256_OK
    /\ out = prev.data

\* C2: every transaction write issues carries at least one payload byte and
\* stays inside one device page
C2_ChunkInsidePage ==
    (call.op \in {"write", "erase"})
    => \A i \in 1 .. Len(log) :
         log[i].kind = "write"
         => (/\ ChunkLen(log[i]) >= 1
             /\ (ChunkAddr(log[i]) % config.page_size) + ChunkLen(log[i])
                    <= config.page_size)

\* C2 witness: a write from an unaligned address has issued a chunk that
\* ends exactly at the page end, and a second chunk
C2_Witness ==
    /\ call.op = "write"
    /\ Len(Chunks(log)) >= 2
    /\ ChunkAddr(Chunks(log)[1]) % config.page_size # 0
    /\ (ChunkAddr(Chunks(log)[1]) % config.page_size) + ChunkLen(Chunks(log)[1])
           = config.page_size

\* reference split of [address, address + length) at the page boundaries:
\* the <<start, size>> pairs in address order
RECURSIVE RefSplit(_, _, _)
RefSplit(address, length, page_size) ==
    IF length = 0 THEN <<>>
    ELSE LET n == Min(length, page_size - (address % page_size))
         IN <<(<<address, n>>)>> \o RefSplit(address + n, length - n, page_size)

RECURSIVE SumSizes(_)
SumSizes(sp) == IF sp = <<>> THEN 0 ELSE Head(sp)[2] + SumSizes(Tail(sp))

\* pages the range [address, address + length) touches
PagesTouched(address, length, page_size) ==
    ((address + length - 1) \div page_size) - (address \div page_size) + 1

\* chunk i of a trace is entry i of the reference split, carrying the bytes
\* of data that follow those of the chunks before it
MatchesSplit(ch, sp, data) ==
    \A i \in 1 .. Len(ch) :
       /\ ChunkAddr(ch[i]) = sp[i][1]
       /\ ChunkLen(ch[i]) = sp[i][2]
       /\ ChunkData(ch[i]) = SubSeq(data, sp[i][1] - sp[1][1] + 1,
                                    sp[i][1] - sp[1][1] + sp[i][2])

\* C3: while a valid write runs, the chunks sent so far are the leading
\* entries of the reference split (so the loop ends after at most that many
\* iterations); when it has returned OK they are the whole split, their
\* sizes sum to length and their number is the number of pages touched
C3_ReferenceSplit ==
    (call.op \in {"write", "erase"} /\ log # <<>>)
    => LET sp == RefSplit(call.address, call.length, config.page_size)
           ch == Chunks(log)
       IN /\ Len(ch) <= Len(sp)
          /\ MatchesSplit(ch, sp, call.data)
          /\ (pc = "write_loop" => Len(ch) < Len(sp))
          /\ (pc = "done" /\ ret = AT24C256_OK
              => (/\ Len(ch) = Len(sp)
                  /\ SumSizes(sp) = call.length
                  /\ Len(ch) = PagesTouched(call.address, call.length,
                                            config.page_size)))

\* C3 witness: a write over three pages has returned OK
C3_Witness ==
    /\ Returned({"write"})
    /\ ret = AT24C256_OK
    /\ Len(Chunks(log)) >= 3
    /\ call.address % config.page_size # 0

\* a range the driver must refuse
BadRange(address, length) ==
    address + length > config.total_size \/ length = 0

\* C4: on a Ready handle, read, write and erase over a range that is empty
\* or ends past total_size, and read and write with a null buffer, return
\* ParamError without touching the channel
C4_BadArgumentsRejected ==
    (/\ Returned({"read", "write", "erase"})
     /\ Ready
     /\ \/ BadRange(call.address, call.length)
        \/ call.op \in {"read", "write"} /\ call.data_null)
    => (ret = AT24C256_ERROR_PARAM /\ log = <<>> /\ mem = mem0)

\* C4 witness: an empty range at the very end of the device was refused
C4_Witness ==
    /\ Returned({"read", "write", "erase"})
    /\ Ready
    /\ call.length = 0
    /\ call.address = config.total_size
    /\ ret = AT24C256_ERROR_PARAM
    /\ log = <<>>

\* a transfer that moved fewer bytes than asked for, or failed
Short(e) == e.kind \in {"write", "read"} /\ e.result # e.n

\* the device holds the payload of chunk e at the chunk's addresses
OnDevice(e) ==
    \A j \in 1 .. ChunkLen(e) : mem[ChunkAddr(e) + j - 1] = ChunkData(e)[j]

\* C5: a short transfer on a chunk of a write is the last thing the call
\* does (no retry, no later chunk), the call returns WriteError, and the
\* chunks sent before it are on the device as written
C5_ShortTransferStops ==
    (call.op \in {"write", "erase"})
    => \A k \in 1 .. Len(log) :
         Short(log[k])
         => (/\ k = Len(log)
             /\ pc = "done"
             /\ ret = AT24C256_ERROR_WRITE
             /\ \A i \in 1 .. k - 1 : log[i].kind = "write" => OnDevice(log[i]))

\* C5 witness: the third chunk of a write came back one byte short
C5_Witness ==
    /\ Returned({"write"})
    /\ Ready
    /\ ret = AT24C256_ERROR_WRITE
    /\ Len(Chunks(log)) = 3
    /\ log[Len(log)].result = log[Len(log)].n - 1
    /\ OnDevice(Chunks(log)[1])
    /\ OnDevice(Chunks(log)[2])

\* C6: within one write call every transaction after the first follows a
\* sleep of the configured settle delay, which follows the transaction before
\* it, and starts at a higher address than that transaction
C6_OrderedAndSettled ==
    (call.op \in {"write", "erase"})
    => \A i \in 2 .. Len(log) :
         log[i].kind = "write"
         => (/\ i >= 3
             /\ log[i - 1].kind = "usleep"
             /\ log[i - 1].n = config.write_delay_ms * 1000
             /\ log[i - 2].kind = "write"
             /\ ChunkAddr(log[i - 2]) < ChunkAddr(log[i]))

\* C6 witness: a write is in the middle of its third transaction's settle
C6_Witness ==
    /\ call.op = "write"
    /\ pc = "write_settle"
    /\ Len(Chunks(log)) = 3

\* the same data written one byte per transaction to address, address + 1, ...
RECURSIVE ByteWise(_, _, _, _)
ByteWise(m, address, data, i) ==
    IF i > Len(data) THEN m
    ELSE ByteWise(DevPageWrite(m, address + i - 1, <<data[i]>>,
                               config.page_size, config.total_size),
                  address, data, i + 1)

\* C7: a write that returned OK leaves the page-wrapping device with the
\* contents that writing the same data one byte at a time would leave
C7_SameAsByteWise ==
    (Returned({"write"}) /\ Ready /\ ret = AT24C256_OK)
    => mem = ByteWise(mem0, call.address, call.data, 1)

\* C7 witness: a write across two page boundaries has returned OK and
\* changed the device
C7_Witness ==
    /\ Returned({"write"})
    /\ Ready
    /\ ret = AT24C256_OK
    /\ PagesTouched(call.address, call.length, config.page_size) = 3
    /\ call.address % config.page_size # 0
    /\ mem # mem0
    /\ mem = ByteWise(mem0, call.address, call.data, 1)

\* C8: an erase that returned OK, followed by a read over the same range
\* whose transfers completed in full, yields length bytes all 0xFF
C8_EraseThenRead ==
    (/\ Returned({"read"})
     /\ Ready
     /\ ~call.data_null
     /\ prev.op = "erase"
     /\ prev.ret = AT24C256_OK
     /\ prev.address = call.address
     /\ prev.length = call.length
     /\ AllFull(log))
    => (/\ ret = AT24C256_OK
        /\ Len(out) = call.length
        /\ \A i \in 1 .. Len(out) : out[i] = ERASE_BYTE)

\* C8 witness: an erased range over more than one page was read back as
\* 0xFF although the device held no 0xFF byte before
C8_Witness ==
    /\ Returned({"read"})
    /\ Ready
    /\ prev.op = "erase"
    /\ prev.address = call.address
    /\ prev.length = call.length
    /\ call.length > config.page_size
    /\ ret = AT24C256_OK
    /\ \A i \in 1 .. Len(out) : out[i] = ERASE_BYTE
    /\ \A m \in InitImages : \A a \in DOMAIN m : m[a] # ERASE_BYTE

\* C9 as stated: read, write, erase and wait_ready on a null handle return
\* ParamError and do not touch the channel
C9_AsClaimed ==
    (Returned({"read", "write", "erase", "wait_ready"}) /\ handle = "NULL")
    => (ret = AT24C256_ERROR_PARAM /\ log = <<>>)

\* C9 amended: read, write, erase and wait_ready on a null handle return
\* InitError (AT24C256_ERROR_INIT) and do not touch the channel or the device
C9_NotReadyRejected ==
    (Returned({"read", "write", "erase", "wait_ready"}) /\ handle = "NULL")
    => (ret = AT24C256_ERROR_INIT /\ log = <<>> /\ mem = mem0)

\* C9 witness: a write with a buffer and a range inside any device was
\* refused on a null handle
C9_Witness ==
    /\ Returned({"write"})
    /\ handle = "NULL"
    /\ ~call.data_null
    /\ call.address = 0
    /\ call.length = 1
    /\ ret = AT24C256_ERROR_INIT
    /\ log = <<>>

\* the finished call was made on a handle that deinit had already released
AfterDeinit ==
    /\ pc = "done"
    /\ handle = "dangling"
    /\ \/ call.op \in {"read", "write", "erase", "wait_ready", "get_info"}
       \/ call.op = "deinit" /\ ~log[1].open

\* C10: every call on a handle that deinit has released fails with an error
\* and touches neither the device nor the released channel
C10_AsClaimed ==
    AfterDeinit => (ret # AT24C256_OK /\ log = <<>>)

\* C11: a read on a Ready handle over a valid range into a buffer issues
\* first one write of the two address bytes, high byte first, then one read
\* of length bytes and nothing else; a short address write returns ReadError
\* with no data read issued, and a data read of a count other than length
\* returns ReadError
C11_ReadProtocol ==
    (/\ Returned({"read"})
     /\ Ready
     /\ ~BadRange(call.address, call.length)
     /\ ~call.data_null)
    => /\ Len(log) \in {1, 2}
       /\ log[1].kind = "write"
       /\ log[1].n = 2
       /\ Len(log[1].buffer) = 2
       /\ log[1].buffer[1] = (call.address \div 256) % 256
       /\ log[1].buffer[2] = call.address % 256
       /\ IF log[1].result # 2
          THEN Len(log) = 1 /\ ret = AT24C256_ERROR_READ
          ELSE /\ Len(log) = 2
               /\ log[2].kind = "read"
               /\ log[2].n = call.length
               /\ ret = IF log[2].result = call.length
                        THEN AT24C256_OK ELSE AT24C256_ERROR_READ

\* C11 witness: a read at a non-zero address sent the pointer and received
\* every byte
C11_Witness ==
    /\ Returned({"read"})
    /\ Ready
    /\ call.address = 3
    /\ call.length = 2
    /\ Len(log) = 2
    /\ log[1].buffer = <<0, 3>>
    /\ log[2].result = 2
    /\ ret = AT24C256_OK

\* the poll attempts of a trace, and whether every one of them failed
Polls(l) == SelectSeq(l, LAMBDA e : e.kind = "read")
AllPollsFailed(l) == \A i \in 1 .. Len(l) : l[i].kind = "read" => l[i].result < 0

\* C12: wait_ready on a Ready handle whose every poll attempt fails never
\* returns OK and cannot loop for ever: while it loops the elapsed time is
\* at most timeout_ms and at least the number of failed polls, a further
\* iteration is always possible, and it returns TimeoutError after at most
\* timeout_ms + 1 polls
C12_WaitReadyTimesOut ==
    (call.op = "wait_ready" /\ Ready /\ AllPollsFailed(log))
    => /\ pc \in {"wait_loop", "done"}
       /\ pc = "wait_loop"
          => /\ Len(Polls(log)) * NSEC_PER_MSEC <= NsBetween(wr.start, wr.now)
             /\ NsBetween(wr.start, wr.now) \div NSEC_PER_MSEC
                    <= wr.timeout_ms
             /\ ENABLED WaitPoll
       /\ pc = "done"
          => /\ ret = AT24C256_ERROR_TIMEOUT
             /\ Len(Polls(log)) <= wr.timeout_ms + 1

\* C12 witness: wait_ready with the largest timeout returned TimeoutError
\* after polling once per millisecond
C12_Witness ==
    /\ Returned({"wait_ready"})
    /\ Ready
    /\ wr.timeout_ms = MaxTimeout
    /\ Len(Polls(log)) = MaxTimeout + 1
    /\ AllPollsFailed(log)
    /\ ret = AT24C256_ERROR_TIMEOUT

\* ---- properties of the file index layer
\* the driver calls a function of the two programs has made, in order
CallsBy(f) == SelectSeq(calls, LAMBDA c : c.by = f)

\* no driver call of either program has failed so far
AllCallsOK == \A i \in 1 .. Len(calls) : calls[i].ret = AT24C256_OK

\* bytes of a list of files
RECURSIVE TotalLength(_)
TotalLength(l) ==
    IF l = <<>> THEN 0 ELSE Len(Head(l).data) + TotalLength(Tail(l))

\* the directory region: header and MAX_FILES entry slots
DirectoryEnd == sizeof_index_header_t + MAX_FILES * sizeof_file_index_t

\* files that are not empty and fit behind the directory region together
FitsDevice(l) ==
    /\ \A i \in 1 .. Len(l) : l[i].data # <<>>
    /\ TotalLength(l) <= IndexTotalSize - DirectoryEnd

\* C13: for every list of at most MAX_FILES non-empty files that fit behind
\* the directory region, the write program followed by the recovery program, no driver
\* call failing and the device left alone in between, saves every file
\* under its name with its bytes unmodified, in write order; the checksum
\* stored for bytes 1,2,3 is 0 and the one stored for bytes 4,5 is 1
C13_RoundTrip ==
    (/\ ipc = "end"
     /\ tamper = <<>>
     /\ Len(blobs) >= 1
     /\ Len(blobs) <= MAX_FILES
     /\ FitsDevice(blobs)
     /\ AllCallsOK)
    => /\ exit_status = [write |-> "EXIT_SUCCESS", read |-> "EXIT_SUCCESS"]
       /\ file_count = Len(blobs)
       /\ outdir = [i \in 1 .. Len(blobs) |->
                      [filename |-> blobs[i].name, data |-> blobs[i].data]]
       /\ \A i \in 1 .. Len(blobs) :
            /\ blobs[i].data = <<1, 2, 3>> => entry_checksum(files[i]) = 0
            /\ blobs[i].data = <<4, 5>> => entry_checksum(files[i]) = 1

\* C13 witness: two files written over an earlier directory came back, the
\* second one first in the listing
C13_Witness ==
    /\ ipc = "end"
    /\ tamper = <<>>
    /\ ~erase_flag
    /\ AllCallsOK
    /\ Len(blobs) = 2
    /\ blobs[1].data = <<4, 5>>
    /\ blobs[2].data = <<1, 2, 3>>
    /\ Len(outdir) = 2
    /\ outdir[1].data = <<4, 5>>
    /\ outdir[2] = [filename |-> <<97>>, data |-> <<1, 2, 3>>]
    /\ entry_checksum(files[1]) = 1
    /\ entry_checksum(files[2]) = 0

\* the entry of the recovery program's array whose payload holds address a
HitBy(a) ==
    { i \in 1 .. file_count :
        a >= entry_address(files[i])
          /\ a < entry_address(files[i]) + entry_size(files[i]) }

\* C14: when the write program has stored several files (no more than
\* MAX_FILES), no driver call failing, and one payload byte of one file is then changed on the device,
\* the recovery program rejects that file and no other with a checksum
\* mismatch, saves every other file, and counts the files less one
C14_OneByteOneFile ==
    (/\ ipc = "end"
     /\ Len(blobs) >= 2
     /\ Len(blobs) <= MAX_FILES
     /\ FitsDevice(blobs)
     /\ AllCallsOK
     /\ tamper # <<>>
     /\ tamper[1].address >= DirectoryEnd
     /\ tamper[1].address < DirectoryEnd + TotalLength(blobs))
    => /\ file_count = Len(blobs)
       /\ Cardinality(HitBy(tamper[1].address)) = 1
       /\ \A i \in 1 .. file_count :
            results[i] = IF i \in HitBy(tamper[1].address)
                         THEN "checksum" ELSE "saved"
       /\ success_count = Len(blobs) - 1
       /\ outdir = SelectSeq(
             [i \in 1 .. Len(blobs) |->
                [filename |-> blobs[i].name, data |-> blobs[i].data]],
             LAMBDA f : \A i \in HitBy(tamper[1].address) :
                           f.filename # blobs[i].name)

\* C14 witness: the last byte of the second of two files was changed; the
\* first file was saved and the second rejected
C14_Witness ==
    /\ ipc = "end"
    /\ Len(blobs) = 2
    /\ AllCallsOK
    /\ tamper # <<>>
    /\ tamper[1].address = (DirectoryEnd + TotalLength(blobs)) - 1
    /\ results = <<"saved", "checksum">>
    /\ success_count = 1
    /\ Len(outdir) = 1
    /\ outdir[1].filename = blobs[1].name
    /\ exit_status.read = "EXIT_SUCCESS"

\* a file of the listing was refused for its size, or the driver write of
\* a payload failed
PayloadFailed ==
    \/ \E i \in 1 .. Len(blobs) :
         i < next_file /\ too_large(Len(blobs[i].data))
    \/ \E i \in 1 .. Len(calls) :
         calls[i].by = "write_file_to_eeprom" /\ calls[i].ret # AT24C256_OK

\* C15: when a file is too large or the driver write of a payload fails, the
\* write program exits with failure and has issued no write of the header
\* or of an entry
C15_AsClaimed ==
    (ipc = "written" /\ PayloadFailed)
    => /\ exit_status.write = "EXIT_FAILURE"
       /\ CallsBy("write_file_index") = <<>>

\* C16: a write of the header or of an entry is issued only after every
\* payload write, the last of which returned OK; the recovery program
\* issues every read of the directory before its first payload read
C16_AsClaimed ==
    /\ \A i \in 1 .. Len(calls) :
         calls[i].by = "write_file_index"
         => /\ \A j \in 1 .. Len(calls) :
                 calls[j].by = "write_file_to_eeprom" => j < i
            /\ LET pw == CallsBy("write_file_to_eeprom")
               IN pw # <<>> => pw[Len(pw)].ret = AT24C256_OK
    /\ \A i \in 1 .. Len(calls) :
         calls[i].by = "read_file_from_eeprom"
         => \A j \in 1 .. Len(calls) :
              calls[j].by = "read_file_index" => j < i

\* the payload writes that returned OK, in order
StoredCalls ==
    SelectSeq(CallsBy("write_file_to_eeprom"),
              LAMBDA c : c.ret = AT24C256_OK)

\* the files of the listing the write program has stored so far, in
\* order: file i on, matched by length with payload write k on (a file
\* refused for its size or for want of memory has no payload write)
RECURSIVE StoredBlobs(_, _)
StoredBlobs(i, k) ==
    IF i >= next_file \/ i > Len(blobs) THEN <<>>
    ELSE LET c == CallsBy("write_file_to_eeprom")
             called == /\ ~too_large(Len(blobs[i].data))
                       /\ k <= Len(c)
                       /\ c[k].length = Len(blobs[i].data)
         IN IF ~called THEN StoredBlobs(i + 1, k)
            ELSE IF c[k].ret = AT24C256_OK
            THEN <<blobs[i]>> \o StoredBlobs(i + 1, k + 1)
            ELSE StoredBlobs(i + 1, k + 1)

\* C17: the first file the write program stores goes to sizeof(header) +
\* MAX_FILES * sizeof(entry), every following one to the address of the one
\* stored before it plus that one's exact length, and the entries recorded
\* hold these addresses and lengths, and the names, in the listing's order
\* (as long as the process is alive)
C17_ContiguousPlacement ==
    (ipc \in {"process", "written"} /\ exit_status.write # "killed")
    => LET st == StoredCalls
           sb == StoredBlobs(1, 1)
       IN /\ file_count = Len(st)
          /\ Len(sb) = Len(st)
          /\ \A i \in 1 .. Len(st) :
               /\ st[i].address =
                    IF i = 1
                    THEN sizeof_index_header_t + MAX_FILES * sizeof_file_index_t
                    ELSE st[i - 1].address + st[i - 1].length
               /\ st[i].length = Len(sb[i].data)
               /\ entry_address(files[i]) = st[i].address
               /\ entry_size(files[i]) = st[i].length
               /\ c_string(entry_filename(files[i])) = sb[i].name

\* C17 witness: the three-byte file was stored behind the two-byte file
C17_Witness ==
    /\ ipc = "written"
    /\ file_count = 2
    /\ blobs[1].data = <<4, 5>>
    /\ entry_address(files[1]) = DirectoryEnd
    /\ entry_size(files[1]) = 2
    /\ entry_address(files[2]) = DirectoryEnd + 2
    /\ entry_size(files[2]) = 3
    /\ c_string(entry_filename(files[2])) = <<97>>
    /\ mem[DirectoryEnd + 2] = 1

\* the header a device image holds at address 0
HeaderOf(m) == [i \in 1 .. sizeof_index_header_t |-> m[(i - 1)]]

\* C18 as stated: with an empty listing the write program succeeds and
\* leaves a header with the magic and a count of 0 on the device
C18_AsClaimed ==
    (ipc = "written" /\ blobs = <<>> /\ AllCallsOK /\ tamper = <<>>)
    => /\ exit_status.write = "EXIT_SUCCESS"
       /\ header_magic(HeaderOf(mem)) = MAGIC
       /\ header_file_count(HeaderOf(mem)) = 0

\* C18 amended: with an empty listing the write program exits with failure
\* and writes neither payload nor header nor entry, so the device keeps
\* what it held when the listing was read; the recovery program then finds
\* the directory that was there before, or none on an erased device
C18_EmptyListFails ==
    (blobs = <<>> /\ AllCallsOK /\ tamper = <<>>)
    => /\ CallsBy("write_file_to_eeprom") = <<>>
       /\ CallsBy("write_file_index") = <<>>
       /\ ipc \in {"written", "recover", "read_files", "end"}
          => /\ exit_status.write = "EXIT_FAILURE"
             /\ mem = mem0
       /\ ipc = "read_files"
          => /\ header_magic(HeaderOf(mem0)) = MAGIC
             /\ file_count = header_file_count(HeaderOf(mem0))
       /\ (ipc = "end" /\ header_magic(HeaderOf(mem0)) # MAGIC)
          => (file_count = 0 /\ exit_status.read = "EXIT_FAILURE")

\* C18 witness: after a run on an empty listing the recovery program
\* saved the files of the earlier run
C18_Witness ==
    /\ ipc = "end"
    /\ blobs = <<>>
    /\ AllCallsOK
    /\ tamper = <<>>
    /\ exit_status.write = "EXIT_FAILURE"
    /\ file_count = Len(EarlierFiles)
    /\ Len(outdir) = Len(EarlierFiles)
    /\ outdir[1].filename = EarlierFiles[1].name
    /\ exit_status.read = "EXIT_SUCCESS"

\* read_file_index has run and its read of the header returned OK
HeaderRead ==
    /\ ipc \in {"read_files", "end"}
    /\ CallsBy("read_file_index") # <<>>
    /\ CallsBy("read_file_index")[1].ret = AT24C256_OK

\* main's files[] holds what it held before read_file_index was called
FilesUntouched(from) ==
    \E b \in StackBytes :
      \A k \in from .. MAX_FILES : files[k] = StackFiles(b)[k]

\* C19: on a device whose first four bytes are not the magic,
\* read_file_index fails once the header is read: it issues no read of an
\* entry, and main's entry array and count stay as they were
C19_BadMagicStopsAtHeader ==
    (HeaderRead /\ header_magic(HeaderOf(mem)) # MAGIC)
    => /\ ipc = "end"
       /\ exit_status.read = "EXIT_FAILURE"
       /\ Len(CallsBy("read_file_index")) = 1
       /\ CallsBy("read_file_from_eeprom") = <<>>
       /\ FilesUntouched(1)
       /\ file_count = 0

\* C19 witness: the first byte of a directory of two files was changed and
\* the recovery program stopped after the header
C19_Witness ==
    /\ ipc = "end"
    /\ tamper # <<>>
    /\ tamper[1].address = 0
    /\ header_file_count(HeaderOf(mem)) = 2
    /\ Len(CallsBy("read_file_index")) = 1
    /\ CallsBy("read_file_index")[1].ret = AT24C256_OK
    /\ FilesUntouched(1)
    /\ exit_status.read = "EXIT_FAILURE"

\* C20: with the magic in place, a header count above MAX_FILES makes
\* read_file_index fail with no entry read and the array untouched; a count
\* n up to MAX_FILES makes it read the entry slots one after the other from
\* sizeof(header) on, n of them unless a read fails, storing slot i in
\* array element i and nothing behind element n
C20_CountBounded ==
    (HeaderRead /\ header_magic(HeaderOf(mem)) = MAGIC)
    => LET n == header_file_count(HeaderOf(mem))
           er == Tail(CallsBy("read_file_index"))
       IN IF n > MAX_FILES
          THEN /\ ipc = "end"
               /\ exit_status.read = "EXIT_FAILURE"
               /\ er = <<>>
               /\ CallsBy("read_file_from_eeprom") = <<>>
               /\ FilesUntouched(1)
               /\ file_count = 0
          ELSE /\ Len(er) <= n
               /\ \A i \in 1 .. Len(er) :
                    /\ er[i].address =
                         sizeof_index_header_t + (i - 1) * sizeof_file_index_t
                    /\ er[i].length = sizeof_file_index_t
                    /\ er[i].ret = AT24C256_OK
                       => files[i] = [b \in 1 .. sizeof_file_index_t |->
                                        mem[(er[i].address + b) - 1]]
               /\ (\A i \in 1 .. Len(er) : er[i].ret = AT24C256_OK)
                  => (Len(er) = n /\ file_count = n)
               /\ FilesUntouched(n + 1)

\* C20 witness: the count of a directory was changed to more than
\* MAX_FILES and the recovery program stopped after the header
C20_Witness ==
    /\ ipc = "end"
    /\ header_magic(HeaderOf(mem)) = MAGIC
    /\ header_file_count(HeaderOf(mem)) > MAX_FILES
    /\ Len(CallsBy("read_file_index")) = 1
    /\ CallsBy("read_file_index")[1].ret = AT24C256_OK
    /\ FilesUntouched(1)
    /\ file_count = 0
    /\ exit_status.read = "EXIT_FAILURE"

\* C21: a driver failure while one entry's payload is read ends the read
\* program: that entry is the last one attempted and the program does not
\* report success
C21_AsClaimed ==
    \A i \in 1 .. Len(results) :
       results[i] = "read"
       => (/\ i = Len(results)
           /\ exit_status.read # "EXIT_SUCCESS")

\* the version field of a header
header_version(h) == h[Len(MAGIC) + 1]

\* C27: a header with the right magic and a format version other than the
\* one the write program stores makes the read of the directory fail: no
\* entry is returned, no payload is read and the program reports failure
C27_AsClaimed ==
    (/\ HeaderRead
     /\ ~bad_magic(header_magic(HeaderOf(mem)))
     /\ header_version(HeaderOf(mem)) # INDEX_VERSION)
    => (/\ ipc = "end"
        /\ exit_status.read = "EXIT_FAILURE"
        /\ file_count = 0
        /\ CallsBy("read_file_from_eeprom") = <<>>)

\* the write program ran over a listing of files that fit, after the run
\* that left EarlierFiles and their directory, and nothing failed or changed
\* the device since
SecondRunDone ==
    /\ ipc \in {"read_files", "end"}
    /\ tamper = <<>>
    /\ exit_status.write = "EXIT_SUCCESS"
    /\ Len(blobs) >= 1
    /\ Len(blobs) <= MAX_FILES
    /\ FitsDevice(blobs)
    /\ AllCallsOK

\* C23: after a second successful run of the write program the recovery
\* program gets the count and the entries of the second run, and saves the
\* second run's files and nothing else: no entry and no file of the first
\* run comes back, also when the second run stored fewer files
C23_SecondRunReplaces ==
    SecondRunDone
    => /\ header_file_count(HeaderOf(mem)) = Len(blobs)
       /\ file_count = Len(blobs)
       /\ \E b \in StackBytes :
            \A i \in 1 .. file_count :
               files[i] = stored_files(StackFiles(b), blobs, 1, PayloadStart)[i]
       /\ \A i \in 1 .. Len(outdir) :
            /\ outdir[i] = [filename |-> blobs[i].name, data |-> blobs[i].data]
            /\ \A j \in 1 .. Len(EarlierFiles) :
                 outdir[i].filename # EarlierFiles[j].name
       /\ ipc = "end" => Len(outdir) = Len(blobs)

\* C23 witness: the second run stored one file where the first had stored
\* two; the second entry of the first run is still on the device behind the
\* new one, and the recovery program saved the one new file only
C23_Witness ==
    /\ SecondRunDone
    /\ ipc = "end"
    /\ ~erase_flag
    /\ Len(blobs) = 1
    /\ Len(EarlierFiles) = 2
    /\ c_string([i \in 1 .. sizeof_file_index_t |-> mem[index_address(1) + i - 1]])
          = EarlierFiles[2].name
    /\ file_count = 1
    /\ outdir = <<[filename |-> blobs[1].name, data |-> blobs[1].data]>>

\* payload addresses whose byte the run of the write program has changed
ChangedPayload ==
    { a \in DirectoryEnd .. IndexTotalSize - 1 : mem[a] # mem0[a] }

\* C22: after a run of the write program that reported failure, no entry
\* that read_file_index returns covers a payload byte the failed run wrote
C22_AsClaimed ==
    (/\ ipc \in {"read_files", "end"}
     /\ tamper = <<>>
     /\ exit_status.write = "EXIT_FAILURE")
    => \A i \in 1 .. file_count :
       \A a \in ChangedPayload :
          ~(/\ a >= entry_address(files[i])
            /\ a < entry_address(files[i]) + entry_size(files[i]))

\* C24: whatever the length of the listing, the write program stores no
\* entry behind the end of files[], counts no more than MAX_FILES files and
\* writes no header with a larger count
C24_AsClaimed ==
    /\ Len(files) <= MAX_FILES
    /\ file_count <= MAX_FILES
    /\ exit_status.write # "killed"
    /\ (tamper = <<>> /\ header_magic(HeaderOf(mem)) = MAGIC)
       => header_file_count(HeaderOf(mem)) <= MAX_FILES

\* the results the channel gave to the transactions of a trace, in order
ChannelResults(l) ==
    [i \in 1 .. Len(Chunks(l)) |-> Chunks(l)[i].result]

\* what at24c256_write(address, data, length) returns and does on the
\* channel when its transactions get the results rs, from the loop state
\* (current_addr, remaining, current_data) on: the reference for C28
RECURSIVE WriteLoopTrace(_, _, _, _, _, _)
WriteLoopTrace(current_addr, remaining, current_data, data, rs, i) ==
    IF remaining = 0 THEN [ret |-> AT24C256_OK, log |-> <<>>]
    ELSE IF i > Len(rs) THEN [ret |-> AT24C256_ERROR_BUSY, log |-> <<>>]
    ELSE LET n == bytes_in_page(current_addr, remaining, config.page_size)
             e == Event("write",
                        chunk_buffer(current_addr, data, current_data, n),
                        n + 2, rs[i])
         IN IF short_write(rs[i], n)
            THEN [ret |-> AT24C256_ERROR_WRITE, log |-> <<e>>]
            ELSE LET rest == WriteLoopTrace((current_addr + n) % UINT16,
                                            (remaining - n) % UINT16,
                                            current_data + n, data, rs, i + 1)
                 IN [ret |-> rest.ret,
                     log |-> <<e, Event("usleep", <<>>,
                                        settle_usec(config.write_delay_ms), 0)>>
                             \o rest.log]

WriteTrace(address, length, data, rs) ==
    LET chk == check_address_length(handle = "NULL", address, length)
    IN IF chk # AT24C256_OK THEN [ret |-> chk, log |-> <<>>]
       ELSE WriteLoopTrace(address, length, 0, data, rs, 1)

\* C28: on a Ready or a null handle, erase(address, length), when it gets
\* its buffer, returns what write(address, buffer of length bytes 0xFF,
\* length) returns and issues the same transactions and settle delays, up to
\* the same stop point, for the same results on the channel: both calls are
\* the one function WriteTrace of the range, the data and those results
C28_EraseIsWriteOfOnes ==
    (/\ Returned({"write", "erase"})
     /\ handle \in {"live", "NULL"}
     /\ ~(call.op = "write" /\ call.data_null)
     /\ ~(call.op = "erase" /\ ret = AT24C256_ERROR_MEMORY))
    => LET data == IF call.op = "write" THEN call.data
                   ELSE [i \in 1 .. Min(call.length, TotalSize + 1)
                            |-> ERASE_BYTE]
           t == WriteTrace(call.address, call.length, data,
                           ChannelResults(log))
       IN ret = t.ret /\ log = t.log

\* C28 witness: an erase over three pages stopped at a short transfer of
\* its third transaction, after two settle delays
C28_Witness ==
    /\ Returned({"erase"})
    /\ Ready
    /\ ret = AT24C256_ERROR_WRITE
    /\ Len(Chunks(log)) = 3
    /\ Len(log) = 5
    /\ log[5].result = log[5].n - 1
    /\ \A i \in 1 .. 3 : \A j \in 1 .. ChunkLen(Chunks(log)[i]) :
          ChunkData(Chunks(log)[i])[j] = ERASE_BYTE

\* the invariant of a Device Configuration
ValidConfig(c) ==
    c.page_size > 0 /\ c.total_size > 0 /\ c.page_size <= c.total_size

\* C25: a Ready handle holds a configuration with page_size > 0,
\* total_size > 0 and page_size <= total_size, whatever configuration init
\* was called with, and the write loop never runs with page_size = 0
C25_AsClaimed ==
    /\ Ready => ValidConfig(config)
    /\ ~(pc = "write_loop" /\ config.page_size = 0)

\* C26: as long as a handle is live no call changes its configuration,
\* which is the one init was given; get_info on a Ready handle returns OK
\* and exactly that configuration, issues nothing on the channel and leaves
\* the handle, the device and the driver's state as they were
C26_GetInfoFrame ==
    [][/\ (handle = "live" /\ handle' = "live") => config' = config
       /\ (handle' = "live" /\ initialized') => config' \in Configs
       /\ (/\ pc = "idle"
           /\ call'.op = "get_info"
           /\ Ready
           /\ ~call'.data_null)
          => /\ pc' = "done"
             /\ ret' = AT24C256_OK
             /\ out' = <<config>>
             /\ log' = <<>>
             /\ UNCHANGED <<handle, initialized, config, nopen, mem, mem0,
                            ptr, w, wr, prev>>]_vars

\* C26 witness: get_info returned the configuration after an erase had
\* changed the device
C26_Witness ==
    /\ Returned({"get_info"})
    /\ Ready
    /\ prev.op = "erase"
    /\ prev.ret = AT24C256_OK
    /\ \E a \in DOMAIN mem : mem[a] = ERASE_BYTE
    /\ ret = AT24C256_OK
    /\ out = <<at24c256_config_t(PageSize, TotalSize)>>
    /\ log = <<>>

\* C29: wait_ready on a Ready handle polls at least once whatever the
\* timeout, returns OK exactly when a poll attempt succeeds, returns
\* TimeoutError only after a failed attempt by which timeout_ms milliseconds
\* have passed since it started, and the attempt that decides is the last
\* thing it does on the channel
C29_AsClaimed ==
    (Returned({"wait_ready"}) /\ Ready)
    => LET p == Polls(log)
       IN /\ Len(p) >= 1
          /\ log[Len(log)].kind = "read"
          /\ \A i \in 1 .. Len(p) - 1 : p[i].result < 0
          /\ ret \in {AT24C256_OK, AT24C256_ERROR_TIMEOUT}
          /\ (ret = AT24C256_OK) = (p[Len(p)].result >= 0)
          /\ ret = AT24C256_ERROR_TIMEOUT
             => NsBetween(wr.start, wr.now) >= wr.timeout_ms * NSEC_PER_MSEC
Outside(address, length) ==
    { a \in DOMAIN mem : a < address \/ a >= address + length }

\* C31: from the moment a write or erase call over [address, address+length)
\* is entered until it has returned, with success or with an error after some
\* chunks, every device byte outside that range is what it was when the call
\* began; during and after a read, wait_ready or get_info call every device
\* byte is what it was when the call began.
C31_WritesStayInRange ==
    /\ call.op \in {"write", "erase"}
       => \A a \in Outside(call.address, call.length) : mem[a] = mem0[a]
    /\ call.op \in {"read", "wait_ready", "get_info"} => mem = mem0

\* a write of more than one chunk over a part of the device has failed
\* part-way, bytes of its range changed
C31_Witness ==
    /\ Returned({"write"})
    /\ ret = AT24C256_ERROR_WRITE
    /\ Len(Chunks(log)) >= 2
    /\ mem # mem0
    /\ Outside(call.address, call.length) # {}

\* C32: the range check adds address and length without 16-bit wraparound:
\* whenever their mathematical sum exceeds total_size, the uint16_t extremes
\* included, a call on a Ready handle returns PARAM error with no transaction
\* and never enters the write loop; and inside an accepted write on a device
\* of up to 65536 bytes the 16-bit current address equals address plus the
\* bytes already sent, without wrapping, as long as a chunk remains to be
\* sent, and the address bytes of every chunk sent are that sum.
C32_NoWraparound ==
    /\ (Ready /\ call.op = "write"
           /\ call.address + call.length > config.total_size)
       => /\ pc \in {"done", "crashed"}
          /\ pc = "done" => ret = AT24C256_ERROR_PARAM
          /\ log = <<>>
    /\ (pc = "write_loop" /\ w.remaining > 0)
       => /\ config.total_size <= UINT16
          /\ w.current_addr = call.address + w.current_data
          /\ w.current_addr + w.remaining = call.address + call.length
    /\ call.op = "write"
       => \A k \in 1 .. Len(Chunks(log)) :
             LET before == SubSeq(Chunks(log), 1, k - 1)
                 sent == IF before = <<>> THEN 0
                         ELSE ChunkAddr(before[k - 1])
                              + ChunkLen(before[k - 1]) - call.address
             IN /\ ChunkAddr(Chunks(log)[k]) = call.address + sent
                /\ call.address + sent < UINT16

\* a write ending at the last address of a 65536-byte device has returned OK
\* after two chunks, and only then has its current address wrapped to 0
C32_Witness ==
    /\ Returned({"write"})
    /\ Ready
    /\ ret = AT24C256_OK
    /\ config.total_size = UINT16
    /\ call.address + call.length = UINT16
    /\ Len(Chunks(log)) >= 2
    /\ w.current_addr = 0

\* address range of entry i of the write program's files[]
EntryFirst(i) == entry_address(files[i])
EntryEnd(i) == entry_address(files[i]) + entry_size(files[i])

\* C33: at every point of a run of the write program, runs in which files
\* were refused or failed to be written included, the ranges [address,
\* address + size) of the entries recorded in files[] are pairwise disjoint,
\* each begins where the one recorded before it ends, all lie inside
\* [sizeof(header) + MAX_FILES * sizeof(entry), total_size), and so none
\* reaches into the directory region [0, sizeof(header) + MAX_FILES *
\* sizeof(entry)).
C33_EntryRangesDisjoint ==
    ipc \in {"process", "written"}
    => /\ file_count <= Len(files)
       /\ \A i \in 1 .. file_count :
            /\ EntryFirst(i) >= DirectoryEnd
            /\ EntryFirst(i) < EntryEnd(i)
            /\ EntryEnd(i) <= IndexTotalSize
            /\ i > 1 => EntryFirst(i) = EntryEnd(i - 1)
            /\ \A a \in EntryFirst(i) .. EntryEnd(i) - 1 :
                 a \notin 0 .. DirectoryEnd - 1
       /\ \A i, j \in 1 .. file_count :
            i # j => (EntryFirst(i) .. EntryEnd(i) - 1)
                       \cap (EntryFirst(j) .. EntryEnd(j) - 1) = {}

\* the run is over with two entries recorded, the second beginning where
\* the first ends, although the payload write of another file of the
\* listing returned an error
C33_Witness ==
    /\ ipc = "written"
    /\ file_count = 2
    /\ EntryFirst(2) = EntryEnd(1)
    /\ \E k \in 1 .. Len(CallsBy("write_file_to_eeprom")) :
         CallsBy("write_file_to_eeprom")[k].ret # AT24C256_OK

\* a range the driver must refuse: empty, or ending behind the device
InvalidRange(address, size) ==
    size = 0 \/ address + size > config.total_size

\* the entries of the directory the recovery program has gone through
\* with the outcome o
EntriesWith(o) == { i \in 1 .. Len(results) : results[i] = o }

\* C34: whatever addresses and sizes the entries of a directory with a
\* valid magic and a count of at most MAX_FILES hold, every at24c256_read the
\* recovery program makes for an entry whose range is empty or ends behind
\* total_size returns PARAM error, so the reads that reach the channel are
\* for ranges inside [0, total_size); such an entry is not saved and not
\* counted in success_count (it fails in the driver, or, when its size is 0,
\* already at malloc), and the loop goes on to every remaining entry.
C34_BadEntryRejected ==
    ipc \in {"read_files", "end"}
    => LET c == CallsBy("read_file_from_eeprom")
       IN /\ \A k \in 1 .. Len(c) :
               /\ InvalidRange(c[k].address, c[k].length)
                    <=> c[k].ret = AT24C256_ERROR_PARAM
               /\ c[k].ret \in {AT24C256_OK, AT24C256_ERROR_READ}
                    => /\ c[k].length > 0
                       /\ c[k].address + c[k].length <= config.total_size
          /\ \A i \in 1 .. Len(results) :
               /\ InvalidRange(entry_address(files[i]), entry_size(files[i]))
                    => results[i] \in {"read", "alloc"}
               /\ results[i] = "alloc" => entry_size(files[i]) = 0
          /\ Len(c) = Len(results) - Cardinality(EntriesWith("alloc"))
          /\ success_count = Cardinality(EntriesWith("saved"))
          /\ Len(outdir) = success_count
          /\ ipc = "read_files" => Len(results) = next_file - 1
          /\ (ipc = "end" /\ results # <<>>) => Len(results) = file_count

\* the first entry's size was changed so that its range ends behind the
\* device: the driver refused it and the second entry was still saved
C34_Witness ==
    /\ ipc = "end"
    /\ tamper # <<>>
    /\ file_count = 2
    /\ entry_address(files[1]) + entry_size(files[1]) > config.total_size
    /\ results = <<"read", "saved">>
    /\ CallsBy("read_file_from_eeprom")[1].ret = AT24C256_ERROR_PARAM
    /\ success_count = 1
    /\ exit_status.read = "EXIT_SUCCESS"

\* handles in the Ready state: the caller holds one handle at a time
ReadyHandles == IF Ready THEN 1 ELSE 0

\* C35: through every sequence of init and deinit calls (and the other calls
\* between them) the number of open channels is the number of Ready handles;
\* an init that returned an error has left no channel open and no handle, an
\* init that returned OK has left exactly one channel open, and a deinit
\* that returned OK has closed the handle's channel: once on the Ready
\* handle, while a repeated deinit finds no open channel to close.
C35_ChannelsMatchHandles ==
    /\ nopen = ReadyHandles
    /\ Returned({"init"})
       => IF ret = AT24C256_OK
          THEN nopen = 1 /\ handle = "live" /\ initialized
          ELSE nopen = 0 /\ handle # "live"
    /\ (Returned({"deinit"}) /\ ret = AT24C256_OK)
       => /\ nopen = 0
          /\ handle = "dangling"
          /\ Len(log) = 1
          /\ log[1].kind = "close"
          /\ (log[1].result = 0) = log[1].open

\* a second init has failed after an init and a deinit that succeeded: no
\* channel is open
C35_Witness ==
    /\ Returned({"init"})
    /\ ret = AT24C256_ERROR_INIT
    /\ handle = "dangling"
    /\ nopen = 0
    /\ ncalls >= 1

\* the sizes of the first n recorded entries added up as integers
RECURSIVE RecordedSizes(_)
RecordedSizes(n) ==
    IF n = 0 THEN 0 ELSE RecordedSizes(n - 1) + entry_size(files[n])

\* the write program has ended and its write of the header returned OK
HeaderWritten ==
    /\ ipc = "written"
    /\ tamper = <<>>
    /\ CallsBy("write_file_index") # <<>>
    /\ CallsBy("write_file_index")[1].ret = AT24C256_OK

\* C36: the 16-bit total_size of the header the write program has written is
\* the exact sum of the sizes of all recorded entries: the entries are
\* payloads the driver accepted one behind the other after the directory
\* region, so their sum is at most total_size less the directory region,
\* which on a device of up to 65536 bytes (32768 for the AT24C256) is below
\* 2^16 and cannot wrap.
C36_TotalSizeExact ==
    /\ IndexTotalSize <= UINT16
    /\ ipc \in {"process", "written"}
       => /\ RecordedSizes(file_count) <= IndexTotalSize - DirectoryEnd
          /\ RecordedSizes(file_count) < UINT16
          /\ total_size_sum(files, file_count) = RecordedSizes(file_count)
    /\ HeaderWritten
       => header_total_size(HeaderOf(mem)) = RecordedSizes(file_count)

\* the header of a run that stored the three-byte and the two-byte file
\* holds 5
C36_Witness ==
    /\ HeaderWritten
    /\ file_count = 2
    /\ entry_size(files[1]) = 3
    /\ entry_size(files[2]) = 2
    /\ header_total_size(HeaderOf(mem)) = 5

====
